---------------------------- MODULE Spec2Model ----------------------------
(***************************************************************************)
(* A model of the tk-rumba hooks: the adapters between the Shotgun         *)
(* pipeline toolkit and the Rumba host application.                        *)
(*                                                                         *)
(* The host (the rumba / rumbapy scripting API, the file system, the       *)
(* toolkit settings) is the environment: its state is held in the          *)
(* variables below and every hook method is one action that reads and      *)
(* writes it exactly in the order the Python code does.                    *)
(*                                                                         *)
(* The hooks never call each other, so each family of hooks has its own    *)
(* specification (SpecFrames, SpecBreakdown, SpecLoader, SpecPublish, ...) *)
(* over the same variables; Spec is a session of the engine, which runs   *)
(* one of the toolkit apps and with it one family of hooks.                *)
(*                                                                         *)
(* Strings the code takes apart (paths, extensions) are sequences of       *)
(* one-character strings, so that splitext, lower and normalize are        *)
(* computed and not assumed.                                               *)
(***************************************************************************)
EXTENDS Integers, Sequences, FiniteSets, TLC

(***************************************************************************)
(* Bounds of the model.                                                    *)
(***************************************************************************)
\* frames are drawn from -MaxFrame .. MaxFrame
MaxFrame == 2
\* the document tree holds at most MaxNodes nodes
MaxNodes == 2
\* a loader batch holds at most MaxBatch actions
MaxBatch == 3
\* a loader call leaves at most MaxLoaded nodes in the document
MaxLoaded == 1
\* the work files on disk have versions up to MaxVersion
MaxVersion == 3
\* a scene the collector walks holds at most MaxSceneNodes nodes
MaxSceneNodes == 4

VARIABLES
    app,                \* the toolkit app whose hooks the session runs
    platform,           \* the operating system: "darwin", "win32" or "linux"
    environ,            \* os.environ, for the variables the launcher reads
    frame,              \* the local variables of the loop that is running
    os_sep,             \* os.path.sep of the platform the hooks run on
    active_document,    \* rumba.active_document() is not None
    nodes,              \* the document tree: node id -> node record
    start_frame,        \* active_doc.start_frame
    end_frame,          \* active_doc.end_frame
    range_start_frame,  \* active_doc.range_start_frame
    range_end_frame,    \* active_doc.range_end_frame
    document_filename,  \* rumba.active_document_filename()
    disk,               \* the paths for which os.path.exists is true
    breakdown_items,    \* the scan results the breakdown app holds for update
    item,               \* the publish item's properties
    prev_op,            \* the hook call made before the last one
    args,               \* the arguments of the last hook call
    calls,              \* the host API calls made by the last hook call, in order
    log,                \* the records logged by the last hook call, in order
    ret                 \* the outcome of the last hook call

hostVars == <<os_sep, active_document, nodes, start_frame, end_frame,
              range_start_frame, range_end_frame, document_filename, disk>>
procVars == <<platform, environ>>
frameVars == <<start_frame, end_frame, range_start_frame, range_end_frame>>
vars == <<os_sep, active_document, nodes, start_frame, end_frame,
          range_start_frame, range_end_frame, document_filename, disk,
          breakdown_items, item, app, platform, environ, frame, prev_op,
          args, calls, log, ret>>

(***************************************************************************)
(* Python values.                                                          *)
(***************************************************************************)
\* None is a sequence no string of the model equals
None == <<"None">>
\* the empty string
Empty == << >>
\* Python truth of a string or None
Truthy(x) == x # None /\ x # Empty
\* the value of a property, or of a variable, that is not set
Absent == <<"absent">>
\* an environment that sets none of the variables the launcher reads
NoEnviron == [RUMBA_USER_PLUGINS |-> Absent, RUMBA_BIN |-> Absent,
              SGTK_RUMBA_CMD_EXTRA_ARGS |-> Absent]
\* no loop is running
NoFrame == [op |-> "none"]
NoArgs == [op |-> "none"]
NoRet == [op |-> "none", raised |-> "no", value |-> None]
\* a publish item as the collector creates it, before it sets any property
NoItem == [path |-> Absent, publish_template |-> Absent,
           work_template |-> Absent, context_change_allowed |-> TRUE,
           publish_path |-> Absent, extra_fields |-> Absent,
           publish_dependencies |-> Absent,
           sg_publish_data |-> [registered |-> FALSE]]

\* "untitled", the file name Rumba gives a document that was never saved
Untitled == <<"u", "n", "t", "i", "t", "l", "e", "d">>

(***************************************************************************)
(* Frame range hook (tk-multi-setframerange).                              *)
(***************************************************************************)
FrameVals == (0 - MaxFrame) .. MaxFrame

\* int(in_frame): the toolkit passes integers, which int() returns as they are
PyInt(x) == x

\* FrameOperation.get_frame_range
get_frame_range_value ==
    IF active_document
    THEN <<start_frame, end_frame>>
    ELSE <<0, 0>>

GetFrameRange ==
    /\ prev_op' = args.op
    /\ args' = [op |-> "get_frame_range"]
    /\ calls' = << >>
    /\ log' = << >>
    /\ ret' = [op |-> "get_frame_range", raised |-> "no",
               value |-> get_frame_range_value]
    /\ UNCHANGED <<hostVars, breakdown_items, item, app, procVars, frame>>

\* FrameOperation.set_frame_range: the end frame written to the document
SetEndSwapped(start, end) == start
set_frame_range_end(start, end) == end

SetFrameRange ==
    \E in_frame \in FrameVals, out_frame \in FrameVals :
        /\ prev_op' = args.op
        /\ args' = [op |-> "set_frame_range", in_frame |-> in_frame,
                    out_frame |-> out_frame]
        /\ log' = << >>
        /\ ret' = [op |-> "set_frame_range", raised |-> "no", value |-> None]
        /\ IF active_document
           THEN LET start == PyInt(in_frame)
                    end == set_frame_range_end(PyInt(in_frame), PyInt(out_frame))
                IN /\ start_frame' = start
                   /\ end_frame' = end
                   /\ range_start_frame' = start
                   /\ range_end_frame' = end
                   /\ calls' = <<"modify_begin", "start_frame.set_value",
                                 "end_frame.set_value",
                                 "range_start_frame.set_value",
                                 "range_end_frame.set_value", "modify_end">>
           ELSE /\ UNCHANGED frameVars
                /\ calls' = << >>
        /\ UNCHANGED <<os_sep, active_document, nodes, document_filename,
                       disk, breakdown_items, item, app, procVars, frame>>

\* the host closes the document, or opens a new one, between two hook calls
HostToggleDocument ==
    /\ active_document' = ~active_document
    /\ prev_op' = args.op
    /\ args' = [op |-> "host"]
    /\ calls' = << >>
    /\ log' = << >>
    /\ ret' = [op |-> "host", raised |-> "no", value |-> None]
    /\ UNCHANGED <<os_sep, nodes, frameVars, document_filename, disk,
                   breakdown_items, item, app, procVars, frame>>

\* the hook call has returned to the toolkit: what it was given, what it
\* called, logged and returned is no longer of interest
Return ==
    /\ args.op # "none"
    /\ prev_op' = "none"
    /\ args' = NoArgs
    /\ calls' = << >>
    /\ log' = << >>
    /\ ret' = NoRet
    /\ UNCHANGED <<hostVars, breakdown_items, item, app, procVars, frame>>

\* no hook call is in progress
Idle == args.op = "none"

InitFrames ==
    /\ app = "tk-multi-setframerange"
    /\ os_sep = "/"
    /\ platform = IF os_sep = "/" THEN "linux" ELSE "win32"
    /\ environ = NoEnviron
    /\ active_document \in BOOLEAN
    /\ nodes = << >>
    /\ start_frame \in FrameVals
    /\ end_frame \in FrameVals
    /\ range_start_frame = start_frame
    /\ range_end_frame = end_frame
    /\ document_filename = Untitled
    /\ disk = {}
    /\ breakdown_items = << >>
    /\ item = NoItem
    /\ frame = NoFrame
    /\ prev_op = "none"
    /\ args = NoArgs
    /\ calls = << >>
    /\ log = << >>
    /\ ret = NoRet

NextFrames ==
    \/ GetFrameRange
    \/ SetFrameRange
    \/ HostToggleDocument

SpecFrames == InitFrames /\ [][NextFrames]_vars

\* C2 (as stated): in every host state, set_frame_range(a, b) followed
\* immediately by get_frame_range() returns (a, b).
C2_RoundTripEveryHostState ==
    [][(args.op = "set_frame_range" /\ args'.op = "get_frame_range")
        => ret'.value = <<args.in_frame, args.out_frame>>]_vars

\* C2 (amended): while there is an active document, set_frame_range(a, b)
\* followed immediately by get_frame_range() returns (a, b); without an
\* active document set_frame_range writes nothing and get_frame_range
\* returns (0, 0).
C2_RoundTripWithDocument ==
    [][(args.op = "set_frame_range" /\ args'.op = "get_frame_range")
        => IF active_document
           THEN ret'.value = <<args.in_frame, args.out_frame>>
           ELSE ret'.value = <<0, 0>> /\ calls = << >>]_vars

\* a get_frame_range that follows a set_frame_range(a, b) with a # b on a
\* document whose range was different
C2_Witness ==
    /\ prev_op = "set_frame_range"
    /\ ret.op = "get_frame_range"
    /\ active_document
    /\ ret.value = <<start_frame, end_frame>>
    /\ start_frame # end_frame
    /\ range_start_frame = start_frame
    /\ range_end_frame = end_frame
    /\ start_frame = MaxFrame

(***************************************************************************)
(* The document tree.  A node is named by its full document name, here its *)
(* id; the document root is 0.  A node record holds what the hooks read:   *)
(*   type    node.type_name()                                              *)
(*   ref     node.reference_filename()                                     *)
(*   plug    the file plug the node has: "file_path", "file" or "none"     *)
(*   val     node.plug(plug).as_string()                                   *)
(*   parent  the node it is a child of                                     *)
(***************************************************************************)
NodeIds == 1 .. MaxNodes

\* the paths of referenced files
RefA == <<"/", "r", "a">>
RefB == <<"/", "r", "b">>

\* the node types the host creates, with the file plug each type carries:
\* an Asset holds a reference, a UsdAsset a file_path plug (and may itself
\* be the root of a referenced file), a Media node a file plug; any other
\* node may be the root of a referenced file or carry a plug named file
NodeSchema(r) ==
    CASE r.type = "Asset" -> r.plug = "none" /\ r.val = Empty
      [] r.type = "UsdAsset" -> r.plug = "file_path"
      [] r.type = "Media" -> r.plug = "file" /\ r.ref = Empty
      [] OTHER -> \/ r.plug = "none" /\ r.val = Empty
                  \/ r.plug = "file" /\ r.val = RefA /\ r.ref = Empty

\* the shape of the trees the model loads: even nodes hang under the node
\* before them, odd nodes under the document root
TreeParent(n) == IF n % 2 = 0 THEN n - 1 ELSE 0

NodeRecs(n) ==
    {r \in [type : {"Asset", "UsdAsset", "Media", "Geometry"},
            ref : {Empty, RefA}, plug : {"none", "file_path", "file"},
            val : {Empty, RefA}, parent : {TreeParent(n)}] : NodeSchema(r)}

\* every document of at most MaxNodes nodes
Documents ==
    UNION {{d \in [1 .. k -> UNION {NodeRecs(n) : n \in 1 .. k}] :
               \A n \in 1 .. k : d[n] \in NodeRecs(n)} : k \in 0 .. MaxNodes}

\* node.children(), in the order of the ids
Children(ns, n) == {c \in DOMAIN ns : ns[c].parent = n}

SetMin(S) == CHOOSE x \in S : \A y \in S : x <= y

\* the nodes below n in the order a recursive walk over children() meets
\* them: each child, then that child's own subtree, then the next child
RECURSIVE Descendants(_, _, _)
Descendants(ns, n, from) ==
    LET cs == {c \in Children(ns, n) : c >= from}
    IN IF cs = {}
       THEN << >>
       ELSE LET c == SetMin(cs)
            IN <<c>> \o Descendants(ns, c, 0) \o Descendants(ns, n, c + 1)

\* node.has_plug(plug_name)
has_plug(ns, n, plug_name) == ns[n].plug = plug_name

\* find_nodes_with_reference(active_document): the document itself has no
\* reference file name
find_nodes_with_reference(ns) ==
    SelectSeq(Descendants(ns, 0, 0), LAMBDA n : Truthy(ns[n].ref))

\* find_nodes_with_plug(active_document, plug_name, type_names)
find_nodes_with_plug(ns, plug_name, type_names) ==
    SelectSeq(Descendants(ns, 0, 0),
              LAMBDA n : has_plug(ns, n, plug_name) /\ ns[n].type \in type_names)

\* get_node_file_path(node)
get_node_file_path(r) ==
    CASE r.type = "Asset" -> r.ref
      [] r.type = "UsdAsset" -> r.val
      [] r.type = "Media" -> r.val
      [] OTHER -> None

\* set_node_file_path(node, path): the node record after the call
SetPathAlwaysReference(r, path) == [r EXCEPT !.ref = path]
set_node_file_path(r, path) ==
    CASE r.type = "Asset" -> [r EXCEPT !.ref = path]
      [] r.type = "UsdAsset" -> [r EXCEPT !.val = path]
      [] r.type = "Media" -> [r EXCEPT !.val = path]
      [] OTHER -> r

\* the host call set_node_file_path makes
set_node_file_path_call(r) ==
    CASE r.type = "Asset" -> <<"replace_reference">>
      [] r.type \in {"UsdAsset", "Media"} -> <<"plug.set_value">>
      [] OTHER -> << >>

\* BreakdownSceneItem(node, file_path): the str subclass carrying the node's
\* full document name and type
BreakdownSceneItem(ns, n) == [node |-> n, node_type |-> ns[n].type]

\* the nodes scan_scene collects: the three searches, concatenated
scan_scene_nodes(ns) ==
    find_nodes_with_reference(ns)
        \o find_nodes_with_plug(ns, "file_path", {"UsdAsset"})
        \o find_nodes_with_plug(ns, "file", {"Media"})

RECURSIVE scan_scene_refs(_, _)
scan_scene_refs(ns, found) ==
    IF found = << >>
    THEN << >>
    ELSE LET n == Head(found)
             ref_path == get_node_file_path(ns[n])
         IN (IF Truthy(ref_path)
             THEN <<[node |-> BreakdownSceneItem(ns, n), type |-> "file",
                     path |-> ref_path]>>
             ELSE << >>) \o scan_scene_refs(ns, Tail(found))

\* BreakdownSceneOperations.scan_scene: the list returned.  ScanSceneAttrKey
\* is the variant that files the item under the key attr.
ScanSceneAttrKey(active, ns) ==
    LET refs == IF active
                THEN scan_scene_refs(ns, scan_scene_nodes(ns))
                ELSE << >>
    IN [i \in 1 .. Len(refs) |->
           [attr |-> refs[i].node, type |-> "file", path |-> refs[i].path]]
scan_scene(active, ns) ==
    IF active THEN scan_scene_refs(ns, scan_scene_nodes(ns)) ELSE << >>

ScanScene ==
    /\ prev_op' = args.op
    /\ args' = [op |-> "scan_scene"]
    /\ calls' = << >>
    /\ log' = << >>
    /\ ret' = [op |-> "scan_scene", raised |-> "no",
               value |-> scan_scene(active_document, nodes)]
    /\ breakdown_items' = ret'.value
    /\ UNCHANGED <<hostVars, item, app, procVars, frame>>

\* the loop of update over the items: st is the document, the host calls
\* made and the exception raised so far.  A node the document no longer
\* holds is outside the code's control: active_document.child(name) either
\* raises (or returns None, and node.type_name() raises), or returns an
\* invalid node whose type matches nothing; child_missing says which.
RECURSIVE update_items(_, _, _)
update_items(st, items, child_missing) ==
    IF items = << >> \/ st.raised # "no"
    THEN st
    ELSE LET new_path == Head(items).path
             node_name == Head(items).node.node
         IN IF node_name \notin DOMAIN st.nodes
            THEN IF child_missing = "raises"
                 THEN [st EXCEPT !.calls = @ \o <<"child">>,
                                 !.raised = "Exception"]
                 ELSE update_items([st EXCEPT !.calls = @ \o <<"child">>],
                                   Tail(items), child_missing)
            ELSE update_items(
                     [st EXCEPT
                         !.nodes = [@ EXCEPT ![node_name] =
                                       set_node_file_path(@, new_path)],
                         !.calls = @ \o <<"child">>
                                     \o set_node_file_path_call(st.nodes[node_name])],
                     Tail(items), child_missing)

\* BreakdownSceneOperations.update; UpdateBracketAfter is the variant that
\* opens the bracket once the paths are written
UpdateBracketAfter(active, ns, items, child_missing) ==
    IF active
    THEN LET st == update_items([nodes |-> ns, calls |-> << >>,
                                 raised |-> "no"], items, child_missing)
         IN IF st.raised = "no"
            THEN [st EXCEPT !.calls = @ \o <<"modify_begin", "modify_end">>]
            ELSE st
    ELSE [nodes |-> ns, calls |-> << >>, raised |-> "no"]
update(active, ns, items, child_missing) ==
    IF active
    THEN LET st == update_items([nodes |-> ns, calls |-> <<"modify_begin">>,
                                 raised |-> "no"], items, child_missing)
         IN IF st.raised = "no"
            THEN [st EXCEPT !.calls = @ \o <<"modify_end">>]
            ELSE st
    ELSE [nodes |-> ns, calls |-> << >>, raised |-> "no"]

\* what the breakdown app passes to update: the items it holds, each left
\* out ("skip"), passed as scanned ("same") or with its path replaced by
\* the path of a newer version ("new")
RECURSIVE PassedItems(_, _)
PassedItems(items, choice) ==
    IF items = << >>
    THEN << >>
    ELSE LET rest == PassedItems(Tail(items), Tail(choice))
         IN CASE Head(choice) = "skip" -> rest
              [] Head(choice) = "same" -> <<Head(items)>> \o rest
              [] OTHER -> <<[Head(items) EXCEPT !.path = RefB]>> \o rest

Update ==
    \E choice \in [1 .. Len(breakdown_items) -> {"skip", "same", "new"}],
       child_missing \in {"raises", "invalid_node"} :
        \E items \in {PassedItems(breakdown_items, choice)} :
            \E out \in {update(active_document, nodes, items, child_missing)} :
                /\ \/ child_missing = "raises"
                   \/ \E i \in 1 .. Len(items) :
                          items[i].node.node \notin DOMAIN nodes
                /\ prev_op' = args.op
                /\ args' = [op |-> "update", items |-> items]
                /\ nodes' = out.nodes
                /\ calls' = out.calls
                /\ log' = << >>
                /\ ret' = [op |-> "update", raised |-> out.raised,
                           value |-> None]
                /\ breakdown_items' = << >>
                /\ UNCHANGED <<os_sep, active_document, frameVars,
                               document_filename, disk, item, app, procVars, frame>>

\* between scan_scene and update the user removes a node, with all the
\* nodes below it, from the document
HostRemoveNode ==
    /\ breakdown_items # << >>
    /\ \E n \in DOMAIN nodes :
           LET ds == Descendants(nodes, n, 0)
               gone == {n} \cup {ds[i] : i \in 1 .. Len(ds)}
           IN nodes' = [m \in DOMAIN nodes \ gone |-> nodes[m]]
    /\ prev_op' = args.op
    /\ args' = [op |-> "host"]
    /\ calls' = << >>
    /\ log' = << >>
    /\ ret' = [op |-> "host", raised |-> "no", value |-> None]
    /\ UNCHANGED <<os_sep, active_document, frameVars, document_filename,
                   disk, breakdown_items, item, app, procVars, frame>>

InitBreakdown ==
    /\ app = "tk-multi-breakdown"
    /\ os_sep = "/"
    /\ platform = IF os_sep = "/" THEN "linux" ELSE "win32"
    /\ environ = NoEnviron
    /\ active_document \in BOOLEAN
    /\ nodes \in (IF active_document THEN Documents ELSE {<< >>})
    /\ start_frame = 0
    /\ end_frame = 0
    /\ range_start_frame = 0
    /\ range_end_frame = 0
    /\ document_filename = Untitled
    /\ disk = {}
    /\ breakdown_items = << >>
    /\ item = NoItem
    /\ frame = NoFrame
    /\ prev_op = "none"
    /\ args = NoArgs
    /\ calls = << >>
    /\ log = << >>
    /\ ret = NoRet

NextBreakdown ==
    \/ ScanScene
    \/ Update
    \/ HostRemoveNode

SpecBreakdown == InitBreakdown /\ [][NextBreakdown]_vars

(***************************************************************************)
(* Claims about the breakdown hook.                                        *)
(***************************************************************************)
\* the number of entries of a scan result that name node n
EntriesFor(refs, n) == Cardinality({i \in 1 .. Len(refs) : refs[i].node.node = n})

\* node n is found by one of the three searches of scan_scene
Matched(ns, n) ==
    \/ Truthy(ns[n].ref)
    \/ ns[n].type = "UsdAsset" /\ ns[n].plug = "file_path"
    \/ ns[n].type = "Media" /\ ns[n].plug = "file"

\* C1: scan_scene returns exactly one entry per referenced node of the tree
\* (also for a node matched by more than one of the three searches), every
\* entry has a non-empty path, and a node whose file path cannot be resolved
\* produces no entry.
C1_OneEntryPerReferencedNode ==
    (ret.op = "scan_scene" /\ active_document) =>
        /\ \A n \in DOMAIN nodes :
               EntriesFor(ret.value, n) =
                   IF Matched(nodes, n) /\ Truthy(get_node_file_path(nodes[n]))
                   THEN 1 ELSE 0
        /\ \A i \in 1 .. Len(ret.value) : Truthy(ret.value[i].path)

\* C3: update called with the list scan_scene just returned, every path
\* unchanged, leaves the document as it was: no node is added or removed
\* and every node keeps its reference and its plug values.
C3_UpdateOfScanIsNoOp ==
    [][(args.op = "scan_scene" /\ args'.op = "update"
            /\ args'.items = ret.value)
        => (nodes' = nodes /\ ret'.raised = "no")]_vars

\* an update of a freshly scanned list that holds an Asset entry and a
\* UsdAsset entry
C3_Witness ==
    /\ prev_op = "scan_scene"
    /\ args.op = "update"
    /\ active_document
    /\ args.items = scan_scene(active_document, nodes)
    /\ \E i, j \in 1 .. Len(args.items) :
           /\ args.items[i].node.node_type = "Asset"
           /\ args.items[j].node.node_type = "UsdAsset"
    /\ calls[Len(calls)] = "modify_end"

\* the last item of the list that names node n
LastItemFor(items, n) ==
    items[CHOOSE i \in 1 .. Len(items) :
              /\ items[i].node.node = n
              /\ \A j \in 1 .. Len(items) : items[j].node.node = n => j <= i]

\* C8: when update is given an item whose node is no longer in the
\* document, the item is skipped with a logged warning, nothing is raised
\* and the other items are still processed.
C8_MissingNodeSkippedWithWarning ==
    (/\ args.op = "update"
     /\ active_document
     /\ \E i \in 1 .. Len(args.items) : args.items[i].node.node \notin DOMAIN nodes)
    => /\ ret.raised = "no"
       /\ \E k \in 1 .. Len(log) : log[k].level = "warning"
       /\ \A i \in 1 .. Len(args.items) :
              LET n == args.items[i].node.node
              IN n \in DOMAIN nodes =>
                     get_node_file_path(nodes[n]) = LastItemFor(args.items, n).path

(***************************************************************************)
(* Strings: what os.path and str do to a path.                             *)
(***************************************************************************)
\* str.lower(), on the letters the model's paths use
LowerChar(c) ==
    CASE c = "U" -> "u"
      [] c = "S" -> "s"
      [] c = "D" -> "d"
      [] c = "A" -> "a"
      [] OTHER -> c

Lower(s) == [i \in 1 .. Len(s) |-> LowerChar(s[i])]

\* str.replace(old, new) for one-character strings
Replace(s, old, new) == [i \in 1 .. Len(s) |-> IF s[i] = old THEN new ELSE s[i]]

\* str.rfind over a set of characters, 0 when none is found
RFind(s, cs) ==
    LET is == {i \in 1 .. Len(s) : s[i] \in cs}
    IN IF is = {} THEN 0 ELSE CHOOSE i \in is : \A j \in is : j <= i

\* the separators os.path recognises: posixpath has sep "/", ntpath has
\* sep "\\" and altsep "/"
PathSeps == IF os_sep = "/" THEN {"/"} ELSE {"\\", "/"}

\* os.path.splitext(path)[1]: the extension starts at the last dot of the
\* last component, unless that component has only dots before it
splitext_ext(path) ==
    LET sepIndex == RFind(path, PathSeps)
        dotIndex == RFind(path, {"."})
    IN IF /\ dotIndex > sepIndex
          /\ \E k \in sepIndex + 1 .. dotIndex - 1 : path[k] # "."
       THEN SubSeq(path, dotIndex, Len(path))
       ELSE Empty

\* os.path.exists(path): the disk is keyed by paths written with "/"
exists(path) ==
    (IF os_sep = "/" THEN path ELSE Replace(path, "\\", "/")) \in disk

(***************************************************************************)
(* Loader hook (tk-multi-loader2).                                         *)
(***************************************************************************)
ExtRumbanode == <<".", "r", "u", "m", "b", "a", "n", "o", "d", "e">>
ExtAbc == <<".", "a", "b", "c">>
ExtUsd == <<".", "u", "s", "d">>
ExtUsda == <<".", "u", "s", "d", "a">>
ExtUsdc == <<".", "u", "s", "d", "c">>
RUMBA_SUPPORTED_FORMATS == {ExtRumbanode, ExtAbc, ExtUsd, ExtUsda, ExtUsdc}

\* the extensions rumba_media reports for audio, image and video files
\* when the hook is imported
ExtWav == <<".", "w", "a", "v">>
ExtPng == <<".", "p", "n", "g">>
ExtMov == <<".", "m", "o", "v">>
RUMBA_SUPPORTED_MEDIA_FORMATS == {ExtWav} \cup {ExtPng} \cup {ExtMov}

\* the publish paths the loader is given
PathUsd == <<"/", "a", ".", "u", "s", "d">>
PathUsdUpper == <<"/", "a", ".", "U", "S", "D">>
PathUsdaUpper == <<"/", "a", ".", "U", "S", "D", "A">>
PathTxt == <<"/", "a", ".", "t", "x", "t">>
PathHidden == <<"/", ".", "u", "s", "d">>
PathDotDir == <<"/", "d", ".", "u", "s", "d", "/", "a">>
PathMov == <<"/", "a", ".", "m", "o", "v">>
PathBackslash == <<"\\", "d", "\\", "a", ".", "u", "s", "d">>
PathBackslashFile == <<"/", "d", "/", "a", ".", "u", "s", "d">>
LoaderPaths == {PathUsd, PathUsdUpper, PathUsdaUpper, PathTxt, PathHidden,
                PathDotDir, PathMov, PathBackslash}
\* the files of LoaderPaths a disk may hold
LoaderFiles == {PathUsd, PathUsdUpper, PathUsdaUpper, PathTxt, PathHidden,
                PathDotDir, PathMov, PathBackslash, PathBackslashFile}
ActionNames == {"reference", "import", "import_media", "download"}

\* self.get_publish_path(sg_publish_data): the local path of the publish
get_publish_path(sg_publish_data) == sg_publish_data.path

\* RumbaActions._is_a_supported_extension
_is_a_supported_extension(path) ==
    Lower(splitext_ext(path)) \in RUMBA_SUPPORTED_FORMATS

\* RumbaActions._is_a_supported_media_extension
_is_a_supported_media_extension(path) ==
    Lower(splitext_ext(path)) \in RUMBA_SUPPORTED_MEDIA_FORMATS

\* the node a host call adds to the document, under the root
AddNode(ns, r) ==
    LET n == SetMin((1 .. Cardinality(DOMAIN ns) + 1) \ DOMAIN ns)
    IN [m \in DOMAIN ns \cup {n} |-> IF m = n THEN r ELSE ns[m]]

ReferenceNode(path) ==
    [type |-> "Asset", ref |-> path, plug |-> "none", val |-> Empty, parent |-> 0]
ImportedNode(path) ==
    [type |-> "Geometry", ref |-> Empty, plug |-> "none", val |-> Empty,
     parent |-> 0]
MediaNode(path) ==
    [type |-> "Media", ref |-> Empty, plug |-> "file", val |-> path, parent |-> 0]

\* a warning record of the log
Warning(msg) == [level |-> "warning", msg |-> msg]

\* RumbaActions._reference_into_current_document.  st is the document, the
\* host calls, the log and the exception so far.  The host may refuse the
\* file (host_fails): rumba.reference then raises.
ReferenceWithoutExistsCheck(st, path, host_fails) ==
    IF active_document
    THEN IF host_fails
         THEN [st EXCEPT !.calls = @ \o <<"modify_begin", "reference">>,
                         !.raised = "HostError"]
         ELSE [st EXCEPT !.calls = @ \o <<"modify_begin", "reference",
                                          "modify_end">>,
                         !.nodes = AddNode(@, ReferenceNode(path))]
    ELSE st
_reference_into_current_document(st, path, host_fails) ==
    IF active_document
    THEN IF exists(path)
         THEN IF host_fails
              THEN [st EXCEPT !.calls = @ \o <<"modify_begin", "reference">>,
                              !.raised = "HostError"]
              ELSE [st EXCEPT !.calls = @ \o <<"modify_begin", "reference",
                                               "modify_end">>,
                              !.nodes = AddNode(@, ReferenceNode(path))]
         ELSE [st EXCEPT !.log = @ \o <<Warning("Referencing path not found!")>>]
    ELSE st

\* RumbaActions._import_into_current_document; with host_fails
\* rumba.load_node raises
_import_into_current_document(st, path, host_fails) ==
    IF active_document
    THEN IF exists(path)
         THEN IF host_fails
              THEN [st EXCEPT !.calls = @ \o <<"modify_begin", "load_node">>,
                              !.raised = "HostError"]
              ELSE [st EXCEPT !.calls = @ \o <<"modify_begin", "load_node",
                                               "modify_end">>,
                              !.nodes = AddNode(@, ImportedNode(path))]
         ELSE [st EXCEPT !.log = @ \o <<Warning("Path to import not found!")>>]
    ELSE st

\* RumbaActions._import_media_into_new_media_layer; with host_fails
\* rumbapy.add_media_layer raises.  The layer is named after the publish
\* (its code, or the base name of the path); the model keeps the media
\* node and not the name of its layer.
_import_media_into_new_media_layer(st, path, host_fails) ==
    IF active_document
    THEN IF exists(path)
         THEN IF host_fails
              THEN [st EXCEPT !.calls = @ \o <<"modify_begin", "add_media_layer">>,
                              !.raised = "HostError"]
              ELSE [st EXCEPT !.calls = @ \o <<"modify_begin", "add_media_layer",
                                               "current_frame", "get_media",
                                               "add_media_clip", "modify_end">>,
                              !.nodes = AddNode(@, MediaNode(path))]
         ELSE [st EXCEPT !.log = @ \o <<Warning("Path to import not found!")>>]
    ELSE st

Unsupported(st) == [st EXCEPT !.raised = "Exception"]

\* RumbaActions.execute_action
ExecuteWithoutMediaCheck(st, name, sg_publish_data, host_fails) ==
    LET path == Replace(get_publish_path(sg_publish_data), os_sep, "/")
    IN CASE name = "reference" ->
                IF ~_is_a_supported_extension(path)
                THEN Unsupported(st)
                ELSE _reference_into_current_document(st, path, host_fails)
         [] name = "import" ->
                IF ~_is_a_supported_extension(path)
                THEN Unsupported(st)
                ELSE _import_into_current_document(st, path, host_fails)
         [] name = "import_media" ->
                _import_media_into_new_media_layer(st, path, host_fails)
         [] OTHER -> st
execute_action(st, name, sg_publish_data, host_fails) ==
    LET path == Replace(get_publish_path(sg_publish_data), os_sep, "/")
    IN CASE name = "reference" ->
                IF ~_is_a_supported_extension(path)
                THEN Unsupported(st)
                ELSE _reference_into_current_document(st, path, host_fails)
         [] name = "import" ->
                IF ~_is_a_supported_extension(path)
                THEN Unsupported(st)
                ELSE _import_into_current_document(st, path, host_fails)
         [] name = "import_media" ->
                IF ~_is_a_supported_media_extension(path)
                THEN Unsupported(st)
                ELSE _import_media_into_new_media_layer(st, path, host_fails)
         [] OTHER -> st

\* RumbaActions.execute_multiple_actions: the loop over the actions; an
\* exception of execute_action ends it.  done counts the actions whose
\* execute_action returned.
RECURSIVE MultipleActionsKeepGoing(_, _, _, _)
MultipleActionsKeepGoing(st, actions, fails, i) ==
    IF i > Len(actions)
    THEN st
    ELSE LET out == execute_action(st, actions[i].name,
                                   actions[i].sg_publish_data, i \in fails)
         IN MultipleActionsKeepGoing(
                [out EXCEPT !.done = IF out.raised = "no" THEN @ + 1 ELSE @],
                actions, fails, i + 1)
RECURSIVE execute_multiple_actions(_, _, _, _)
execute_multiple_actions(st, actions, fails, i) ==
    IF i > Len(actions) \/ st.raised # "no"
    THEN st
    ELSE LET out == execute_action(st, actions[i].name,
                                   actions[i].sg_publish_data, i \in fails)
         IN execute_multiple_actions(
                [out EXCEPT !.done = IF out.raised = "no" THEN @ + 1 ELSE @],
                actions, fails, i + 1)

LoaderStart == [nodes |-> nodes, calls |-> << >>, log |-> << >>,
                raised |-> "no", done |-> 0]

ExecuteAction ==
    \E name \in ActionNames, path \in LoaderPaths, host_fails \in BOOLEAN :
        \E out \in {execute_action(LoaderStart, name, [path |-> path],
                                   host_fails)} :
            /\ Cardinality(DOMAIN out.nodes) <= MaxLoaded
            /\ prev_op' = args.op
            /\ args' = [op |-> "execute_action", name |-> name,
                        sg_publish_data |-> [path |-> path],
                        host_fails |-> host_fails]
            /\ nodes' = out.nodes
            /\ calls' = out.calls
            /\ log' = out.log
            /\ ret' = [op |-> "execute_action", raised |-> out.raised,
                       value |-> None]
            /\ UNCHANGED <<os_sep, active_document, frameVars,
                           document_filename, disk, breakdown_items, item, app, procVars, frame>>

\* the actions of a batch: a reference of a supported file, an import of a
\* media file and an import of a file reference and import do not support
BatchActions ==
    {[name |-> "reference", sg_publish_data |-> [path |-> PathUsd]],
     [name |-> "import_media", sg_publish_data |-> [path |-> PathMov]],
     [name |-> "import", sg_publish_data |-> [path |-> PathTxt]]}

Batches == UNION {[1 .. k -> BatchActions] : k \in 0 .. MaxBatch}

ExecuteMultipleActions ==
    \E actions \in Batches :
        \E fails \in {{}} \cup {{i} : i \in 1 .. Len(actions)} :
            \E out \in {execute_multiple_actions(LoaderStart, actions, fails, 1)} :
                /\ Cardinality(DOMAIN out.nodes) <= MaxLoaded
                /\ prev_op' = args.op
                /\ args' = [op |-> "execute_multiple_actions",
                            actions |-> actions, fails |-> fails]
                /\ nodes' = out.nodes
                /\ calls' = out.calls
                /\ log' = out.log
                /\ ret' = [op |-> "execute_multiple_actions",
                           raised |-> out.raised, value |-> None,
                           done |-> out.done]
                /\ UNCHANGED <<os_sep, active_document, frameVars,
                               document_filename, disk, breakdown_items, item, app, procVars, frame>>

\* RumbaActions.generate_actions: one instance for each of the three names
\* the hook knows, in this order, when the name is among actions (only
\* membership in actions is tested).  GenerateActionsForEveryName is the
\* variant that also answers the names it does not know.
ActionInstance(name, caption, description) ==
    [name |-> name, params |-> None, caption |-> caption,
     description |-> description]

ReferenceInstance ==
    ActionInstance("reference", "Reference into the current Document",
                   "This file will be referenced into the current Document")

ImportInstance ==
    ActionInstance("import", "Import into the current Document",
                   "This file will be imported into the current Document")

ImportMediaInstance ==
    ActionInstance("import_media", "Import media into the current Session",
        "This file will be imported as a media into the current session")

GenerateActionsForEveryName(actions) ==
    (IF "reference" \in actions THEN <<ReferenceInstance>> ELSE << >>)
    \o (IF "import" \in actions THEN <<ImportInstance>> ELSE << >>)
    \o (IF "import_media" \in actions THEN <<ImportMediaInstance>> ELSE << >>)
    \o (IF "download" \in actions
        THEN <<ActionInstance("download", "download", "download")>>
        ELSE << >>)
generate_actions(actions) ==
    (IF "reference" \in actions THEN <<ReferenceInstance>> ELSE << >>)
    \o (IF "import" \in actions THEN <<ImportInstance>> ELSE << >>)
    \o (IF "import_media" \in actions THEN <<ImportMediaInstance>> ELSE << >>)

\* the action names the loader passes come from the configuration of the
\* app: any names, given here as the set of the names in the list
GenerateActions ==
    \E actions \in SUBSET ActionNames :
        /\ prev_op' = args.op
        /\ args' = [op |-> "generate_actions", actions |-> actions]
        /\ calls' = << >>
        /\ log' = << >>
        /\ ret' = [op |-> "generate_actions", raised |-> "no",
                   value |-> generate_actions(actions)]
        /\ UNCHANGED <<os_sep, active_document, nodes, frameVars,
                       document_filename, disk, breakdown_items, item, app,
                       procVars, frame>>

InitLoader ==
    /\ app = "tk-multi-loader2"
    /\ os_sep \in {"/", "\\"}
    /\ platform = IF os_sep = "/" THEN "linux" ELSE "win32"
    /\ environ = NoEnviron
    /\ active_document \in BOOLEAN
    /\ nodes = << >>
    /\ start_frame = 0
    /\ end_frame = 0
    /\ range_start_frame = 0
    /\ range_end_frame = 0
    /\ document_filename = Untitled
    /\ disk \in {LoaderFiles, LoaderFiles \ {PathUsd}, LoaderFiles \ {PathMov}}
    /\ breakdown_items = << >>
    /\ item = NoItem
    /\ frame = NoFrame
    /\ prev_op = "none"
    /\ args = NoArgs
    /\ calls = << >>
    /\ log = << >>
    /\ ret = NoRet

\* the loader calls the hook from its event loop, one call at a time: a
\* call is made when the last one has returned
NextLoader ==
    \/ Idle /\ ExecuteAction
    \/ Idle /\ ExecuteMultipleActions
    \/ Idle /\ GenerateActions
    \/ Return

SpecLoader == InitLoader /\ [][NextLoader]_vars

(***************************************************************************)
(* Claims about the loader hook.                                           *)
(***************************************************************************)
\* s ends with e
EndsWith(s, e) ==
    /\ Len(s) >= Len(e)
    /\ SubSeq(s, Len(s) - Len(e) + 1, Len(s)) = e

\* the supported-format list of a loader action
SupportedList(name) ==
    IF name = "import_media"
    THEN RUMBA_SUPPORTED_MEDIA_FORMATS
    ELSE RUMBA_SUPPORTED_FORMATS

\* the path, lower-cased, ends with none of the action's supported formats
SuffixOutside(name, path) ==
    ~\E e \in SupportedList(name) : EndsWith(Lower(path), e)

LoadingNames == {"reference", "import", "import_media"}

\* C4: for each of reference, import and import_media, execute_action
\* raises and makes no host call at all (so none before the test either)
\* whenever the suffix of the path, compared case-insensitively, is outside
\* the supported-format list of the action.
C4_UnsupportedSuffixRaisesBeforeAnyCall ==
    (/\ args.op = "execute_action"
     /\ args.name \in LoadingNames
     /\ SuffixOutside(args.name, args.sg_publish_data.path))
    => (ret.raised = "Exception" /\ calls = << >> /\ log = << >>)

\* import_media of an existing .usd file into an open document: the path
\* is fine for reference and import but not for media
C4_Witness ==
    /\ args.op = "execute_action"
    /\ args.name = "import_media"
    /\ args.sg_publish_data.path = PathUsd
    /\ active_document
    /\ exists(PathUsd)
    /\ ret.raised = "Exception"
    /\ calls = << >>

\* what execute_action does with the path: the code's own extension check
CodeSupported(name, sg_publish_data) ==
    LET path == Replace(get_publish_path(sg_publish_data), os_sep, "/")
    IN IF name = "import_media"
       THEN _is_a_supported_media_extension(path)
       ELSE _is_a_supported_extension(path)

\* the action gets as far as the host: extension supported, a document is
\* open and the file exists
Effective(a) ==
    /\ a.name \in LoadingNames
    /\ CodeSupported(a.name, a.sg_publish_data)
    /\ active_document
    /\ exists(Replace(get_publish_path(a.sg_publish_data), os_sep, "/"))

\* execute_action raises for the i-th action of the batch
RaisesAt(actions, fails, i) ==
    \/ actions[i].name \in LoadingNames
           /\ ~CodeSupported(actions[i].name, actions[i].sg_publish_data)
    \/ Effective(actions[i]) /\ i \in fails

\* the first action of the batch that raises, 0 when none does
FirstRaising(actions, fails) ==
    LET rs == {i \in 1 .. Len(actions) : RaisesAt(actions, fails, i)}
    IN IF rs = {} THEN 0 ELSE SetMin(rs)

\* C6: once execute_action raises for the i-th action of a batch, the error
\* reaches the caller, no later action is executed (exactly i - 1 actions
\* completed and the document holds the nodes of the effective ones among
\* them, no others), and the nodes added before stay in the document.
C6_BatchStopsAtFirstError ==
    [][args'.op = "execute_multiple_actions" =>
        \A r \in {FirstRaising(args'.actions, args'.fails)} :
            \A before \in {IF r = 0 THEN Len(args'.actions) ELSE r - 1} :
                /\ (r = 0) = (ret'.raised = "no")
                /\ ret'.done = before
                /\ Cardinality(DOMAIN nodes') =
                       Cardinality(DOMAIN nodes)
                           + Cardinality({j \in 1 .. before :
                                             Effective(args'.actions[j])})
                /\ \A n \in DOMAIN nodes :
                       n \in DOMAIN nodes' /\ nodes'[n] = nodes[n]]_vars

\* a batch of three: the first action adds a node, the second raises on its
\* extension, the third would have added a node and was not executed
C6_Witness ==
    /\ args.op = "execute_multiple_actions"
    /\ Len(args.actions) = 3
    /\ Effective(args.actions[1])
    /\ ~CodeSupported(args.actions[2].name, args.actions[2].sg_publish_data)
    /\ Effective(args.actions[3])
    /\ args.fails = {}
    /\ ret.raised = "Exception"
    /\ ret.done = 1
    /\ Cardinality(DOMAIN nodes) = 1

WarningLogged == \E k \in 1 .. Len(log) : log[k].level = "warning"

\* the case of C7: a loading action with an extension the code supports,
\* while no document is open or the path is not on disk
C7_Case ==
    /\ args.op = "execute_action"
    /\ args.name \in LoadingNames
    /\ CodeSupported(args.name, args.sg_publish_data)
    /\ \/ ~active_document
       \/ ~exists(Replace(get_publish_path(args.sg_publish_data), os_sep, "/"))

\* C7 (as stated): in that case the action logs a warning, raises nothing
\* and calls neither modify_begin nor any reference/import/media function.
C7_SkippedWithWarning ==
    C7_Case => (WarningLogged /\ ret.raised = "no" /\ calls = << >>)

\* C7 (amended): in that case the action raises nothing, makes no host call
\* and leaves the document unchanged; it logs a warning when a document is
\* open and the path is missing, and logs nothing when no document is open.
C7_SkippedWarningOnlyForMissingPath ==
    [][(args'.op = "execute_action" /\ C7_Case') =>
        /\ ret'.raised = "no"
        /\ calls' = << >>
        /\ nodes' = nodes
        /\ WarningLogged' = active_document
        /\ ~active_document => log' = << >>]_vars

\* a reference of a supported path that is not on disk, with a document open
C7_Witness ==
    /\ C7_Case
    /\ args.name = "reference"
    /\ active_document
    /\ args.sg_publish_data.path = PathUsd
    /\ log = <<[level |-> "warning", msg |-> "Referencing path not found!"]>>
    /\ ret.raised = "no"

(***************************************************************************)
(* Scene operations hook (tk-multi-workfiles2).                            *)
(***************************************************************************)
\* Python's True as a value a return can be compared with
PyTrue == <<"True">>

\* the work files the app passes as file_path
WorkFileA == <<"/", "w", "a">>
WorkFileB == <<"/", "w", "b">>
WorkFiles == {WorkFileA, WorkFileB}

\* the documents the work files hold: an empty one, one with a referenced
\* asset, one with a USD asset
SavedDocuments ==
    {<< >>,
     <<[type |-> "Asset", ref |-> RefA, plug |-> "none", val |-> Empty,
        parent |-> 0]>>,
     <<[type |-> "UsdAsset", ref |-> Empty, plug |-> "file_path",
        val |-> RefA, parent |-> 0]>>}

SceneOperations ==
    {"current_path", "open", "save", "save_as", "reset", "prepare_new"}

\* rumba.new_document(): an empty, untitled document becomes the active one
new_document ==
    /\ active_document' = TRUE
    /\ nodes' = << >>
    /\ start_frame' = 0
    /\ end_frame' = 0
    /\ range_start_frame' = 0
    /\ range_end_frame' = 0
    /\ document_filename' = Untitled
    /\ UNCHANGED disk

\* rumba.load_document(file_path): the document the file holds becomes the
\* active one
load_document(file_path) ==
    /\ active_document' = TRUE
    /\ nodes' \in SavedDocuments
    /\ start_frame' = 0
    /\ end_frame' \in {0, MaxFrame}
    /\ range_start_frame' = start_frame'
    /\ range_end_frame' = end_frame'
    /\ document_filename' = file_path
    /\ UNCHANGED disk

\* the host calls of SceneOperation.execute
execute_calls(operation, file_path) ==
    CASE operation = "open" -> <<"load_document">>
      [] operation = "save" /\ active_document /\ document_filename # Untitled ->
             <<"write">>
      [] operation = "save_as" /\ active_document -> <<"save_at">>
      [] operation = "reset" /\ active_document -> <<"new_document">>
      [] operation = "prepare_new" -> <<"new_document">>
      [] OTHER -> << >>

\* the value SceneOperation.execute returns.  ExecuteValueResetChecked is
\* the variant whose reset tells whether there was a document to reset.
ExecuteValueResetChecked(operation) ==
    CASE operation = "current_path" -> document_filename
      [] operation = "reset" ->
             IF active_document THEN PyTrue ELSE <<"False">>
      [] operation = "prepare_new" -> PyTrue
      [] OTHER -> None
execute_value(operation) ==
    CASE operation = "current_path" -> document_filename
      [] operation \in {"reset", "prepare_new"} -> PyTrue
      [] OTHER -> None

\* SceneOperation.execute(operation, file_path, ...).  The app opens the
\* files it lists from disk.
SceneOperationExecute ==
    \E operation \in SceneOperations, file_path \in WorkFiles :
        /\ operation = "open" => file_path \in disk
        /\ prev_op' = args.op
        /\ args' = [op |-> "execute", operation |-> operation,
                    file_path |-> file_path]
        /\ calls' = execute_calls(operation, file_path)
        /\ log' = << >>
        /\ ret' = [op |-> "execute", raised |-> "no",
                   value |-> execute_value(operation)]
        /\ CASE operation = "open" -> load_document(file_path)
             [] operation = "save" /\ active_document
                    /\ document_filename # Untitled ->
                    /\ disk' = disk \cup {document_filename}
                    /\ UNCHANGED <<active_document, nodes, frameVars,
                                   document_filename>>
             [] operation = "save_as" /\ active_document ->
                    /\ disk' = disk \cup {file_path}
                    /\ document_filename' = file_path
                    /\ UNCHANGED <<active_document, nodes, frameVars>>
             [] operation = "reset" /\ active_document -> new_document
             [] operation = "prepare_new" -> new_document
             [] OTHER -> UNCHANGED <<active_document, nodes, frameVars,
                                     document_filename, disk>>
        /\ UNCHANGED <<os_sep, breakdown_items, item, app, procVars, frame>>

InitScene ==
    /\ app = "tk-multi-workfiles2"
    /\ os_sep = "/"
    /\ platform = IF os_sep = "/" THEN "linux" ELSE "win32"
    /\ environ = NoEnviron
    /\ active_document \in BOOLEAN
    /\ nodes = << >>
    /\ start_frame = 0
    /\ end_frame = 0
    /\ range_start_frame = 0
    /\ range_end_frame = 0
    /\ document_filename \in (IF active_document THEN {Untitled}
                                                 ELSE {Empty, Untitled})
    /\ disk \in {{}, {WorkFileA}}
    /\ breakdown_items = << >>
    /\ item = NoItem
    /\ frame = NoFrame
    /\ prev_op = "none"
    /\ args = NoArgs
    /\ calls = << >>
    /\ log = << >>
    /\ ret = NoRet

\* workfiles calls the hook from its event loop, one call at a time
NextScene ==
    \/ Idle /\ SceneOperationExecute
    \/ Return

SpecScene == InitScene /\ [][NextScene]_vars

(***************************************************************************)
(* Publish plugins (tk-multi-publish2): RumbaBasePublishPlugin, which the  *)
(* USD, FBX, Alembic and Rumba node plugins extend, and                    *)
(* RumbaSessionPublishPlugin.                                              *)
(***************************************************************************)
Plugins == {"base", "session"}

\* the templates of templates.yml and the names plugin settings give
PublishTemplate == <<"publish template">>
WorkTemplate == <<"work template">>
TemplateName == <<"T">>
BadTemplateName == <<"X">>

\* engine.get_template_by_name(name)
get_template_by_name(name) ==
    IF name = TemplateName THEN PublishTemplate ELSE None

\* settings.get("Publish Template") of a plugin instance: no such setting,
\* or a setting whose value is None, "", or a name
PublishTemplateSettings ==
    {[present |-> FALSE, value |-> None]}
        \cup [present : {TRUE},
              value : {None, Empty, TemplateName, BadTemplateName}]

\* item.get_property(name) and item.properties.get(name)
get_property(it, name) == IF it[name] = Absent THEN None ELSE it[name]

\* the outcome of a plugin method so far: the item, the records logged, the
\* exception raised and the value returned
PublishStart == [item |-> item, log |-> << >>, raised |-> "no", value |-> None]

\* get_publish_template(settings, item), of both plugin classes.
\* TemplateAlwaysCached is the variant that caches what the engine returns
\* before it looks at it.
TemplateAlwaysCached(st, setting) ==
    LET it == st.item
        configured == setting.present /\ Truthy(setting.value)
        publish_template == IF configured
                            THEN get_template_by_name(setting.value)
                            ELSE None
    IN IF Truthy(get_property(it, "publish_template"))
       THEN [st EXCEPT !.value = get_property(it, "publish_template")]
       ELSE [st EXCEPT !.item.publish_template = publish_template,
                       !.raised = IF configured /\ ~Truthy(publish_template)
                                  THEN "TankError" ELSE "no",
                       !.value = publish_template]
get_publish_template(st, setting) ==
    LET it == st.item
        configured == setting.present /\ Truthy(setting.value)
        publish_template == IF configured
                            THEN get_template_by_name(setting.value)
                            ELSE None
    IN IF Truthy(get_property(it, "publish_template"))
       THEN [st EXCEPT !.value = get_property(it, "publish_template")]
       ELSE IF configured /\ ~Truthy(publish_template)
            THEN [st EXCEPT !.raised = "TankError"]
            ELSE [st EXCEPT !.item.publish_template = publish_template,
                            !.value = publish_template]

\* _session_path()
_session_path ==
    IF document_filename = Untitled THEN None ELSE document_filename

\* _get_save_as_action(): the action button of the log record
SaveAsAction == [label |-> "Save As...", version |-> 0]
\* the action button "Save to v<version>" of the version check
SaveToAction(version) == [label |-> "Save to v", version |-> version]
NoAction == [label |-> "none", version |-> 0]
LogRecord(level, msg, action) ==
    [level |-> level, msg |-> msg, action |-> action]

\* sgtk.util.ShotgunPath.normalize(path): separators of the platform, no
\* double separator, no trailing separator
RECURSIVE Squeeze(_, _)
Squeeze(s, sep) ==
    IF Len(s) < 2
    THEN s
    ELSE IF s[1] = sep /\ s[2] = sep
         THEN Squeeze(Tail(s), sep)
         ELSE <<s[1]>> \o Squeeze(Tail(s), sep)
normalize(path) ==
    LET seps == [i \in 1 .. Len(path) |->
                    IF path[i] \in {"/", "\\"} THEN os_sep ELSE path[i]]
        single == Squeeze(seps, os_sep)
    IN IF Len(single) > 1 /\ single[Len(single)] = os_sep
       THEN SubSeq(single, 1, Len(single) - 1)
       ELSE single

NotSavedMsg == "The Rumba session has not been saved."

\* session_validate(settings, item): the base plugin returns True, the
\* session plugin returns nothing.  SessionValidateAnyPath is the variant
\* that takes "untitled" for a path as well.
SessionValidateAnyPath(st, plugin) ==
    LET session_path == document_filename
    IN IF ~Truthy(session_path)
       THEN [st EXCEPT !.log = @ \o <<LogRecord("error", NotSavedMsg,
                                                SaveAsAction)>>,
                       !.raised = "Exception"]
       ELSE [st EXCEPT !.item.path = normalize(session_path),
                       !.value = IF plugin = "base" THEN PyTrue ELSE None]
session_validate(st, plugin) ==
    LET session_path == _session_path
    IN IF ~Truthy(session_path)
       THEN [st EXCEPT !.log = @ \o <<LogRecord("error", NotSavedMsg,
                                                SaveAsAction)>>,
                       !.raised = "Exception"]
       ELSE [st EXCEPT !.item.path = normalize(session_path),
                       !.value = IF plugin = "base" THEN PyTrue ELSE None]

\* the work files of the session, "/w/s.v<N>", as the work template names
\* them
DigitChar(n) == <<"0", "1", "2", "3", "4", "5", "6", "7", "8", "9">>[n + 1]
WorkV(n) == <<"/", "w", "/", "s", ".", "v", DigitChar(n)>>
\* the same file, written with a doubled separator
WorkVDouble(n) == <<"/", "w", "/", "/", "s", ".", "v", DigitChar(n)>>
\* a file outside the work area
OutsidePath == <<"/", "x", "/", "s">>

Slashed(path) == Replace(path, "\\", "/")
IsWorkPath(path) == \E n \in 1 .. 9 : Slashed(path) = WorkV(n)
VersionOf(path) == CHOOSE n \in 1 .. 9 : Slashed(path) = WorkV(n)

\* work_template.validate(path)
work_template_validate(path) == IsWorkPath(path)

\* self._get_next_version_info(path, item), of the publish_file plugin the
\* classes extend: the path of the next version and its number, or nothing
\* when the path carries no version.  NextVersionSamePath is the variant
\* that does not bump the version.
NextVersionSamePath(path) ==
    IF IsWorkPath(path) /\ VersionOf(path) < 9
    THEN [path |-> Replace(WorkV(VersionOf(path)), "/", os_sep),
          version |-> VersionOf(path)]
    ELSE [path |-> None, version |-> 0]
_get_next_version_info(path) ==
    IF IsWorkPath(path) /\ VersionOf(path) < 9
    THEN [path |-> Replace(WorkV(VersionOf(path) + 1), "/", os_sep),
          version |-> VersionOf(path) + 1]
    ELSE [path |-> None, version |-> 0]

\* the loop of the version check: ask for the next version while the file
\* of that version exists
\* NextVersionNotSearched is the variant that offers the version after the
\* current one without looking for a free one.
NextVersionNotSearched(info) == info
RECURSIVE next_available_version(_)
next_available_version(info) ==
    IF Truthy(info.path) /\ exists(info.path)
    THEN next_available_version(_get_next_version_info(info.path))
    ELSE info

\* RumbaBasePublishPlugin.version_validate, and the same check in
\* RumbaSessionPublishPlugin.validate
version_validate(st) ==
    LET info == _get_next_version_info(st.item.path)
    IN IF Truthy(info.path) /\ exists(info.path)
       THEN [st EXCEPT
                !.log = @ \o <<LogRecord("error", "The next version exists.",
                                 SaveToAction(next_available_version(info).version))>>,
                !.raised = "Exception"]
       ELSE [st EXCEPT !.value = PyTrue]

NoMatchMsg == "The current session does not match the work file template."
NoPublishTemplateMsg == "No Publish template defined for the session."

\* RumbaBasePublishPlugin.templates_validate: the value is PyTrue or
\* PyFalse.  logger.warning is passed the keyword valid, which the logger
\* does not take: the call raises TypeError.
PyFalse == <<"False">>
\* TemplatesValidatePublishOnly is the variant that looks at the publish
\* template alone.
TemplatesValidatePublishOnly(st, setting) ==
    LET got == get_publish_template(st, setting)
    IN IF got.raised # "no"
       THEN got
       ELSE IF Truthy(got.value)
            THEN [got EXCEPT !.value = PyTrue]
            ELSE [got EXCEPT
                     !.log = @ \o <<LogRecord("warning",
                                      NoPublishTemplateMsg, NoAction)>>,
                     !.value = PyFalse]
base_templates_validate(st, setting) ==
    LET work_template == get_property(st.item, "work_template")
        matches == work_template_validate(get_property(st.item, "path"))
    IN IF Truthy(work_template) /\ ~matches
       THEN [st EXCEPT !.raised = "TypeError"]
       ELSE LET got == get_publish_template(st, setting)
            IN IF got.raised # "no"
               THEN got
               ELSE IF Truthy(got.value)
                    THEN [got EXCEPT !.value = IF Truthy(work_template)
                                               THEN PyTrue ELSE PyFalse]
                    ELSE [got EXCEPT
                             !.log = @ \o <<LogRecord("warning",
                                              NoPublishTemplateMsg, NoAction)>>,
                             !.value = PyFalse]

\* RumbaSessionPublishPlugin.templates_validate: returns nothing
session_templates_validate(st, setting) ==
    LET work_template == get_property(st.item, "work_template")
        matches == work_template_validate(get_property(st.item, "path"))
        warned == IF Truthy(work_template) /\ ~matches
                  THEN [st EXCEPT !.log = @ \o <<LogRecord("warning",
                                                   NoMatchMsg, SaveAsAction)>>]
                  ELSE st
        got == get_publish_template(warned, setting)
    IN IF got.raised # "no"
       THEN got
       ELSE IF Truthy(got.value)
            THEN [got EXCEPT !.value = None]
            ELSE [got EXCEPT
                     !.log = @ \o <<LogRecord("warning", NoPublishTemplateMsg,
                                              NoAction)>>,
                     !.value = None]

\* Python's "a and b" on the values True and False
PyAnd(a, b) == IF a = PyTrue THEN b ELSE a

\* RumbaBasePublishPlugin.validate; super_valid is what the validate of the
\* publish_file plugin returns
base_validate(st, setting, super_valid) ==
    LET session == session_validate(st, "base")
        templates == base_templates_validate(session, setting)
        version == version_validate(templates)
    IN IF session.raised # "no"
       THEN session
       ELSE IF templates.raised # "no"
            THEN templates
            ELSE IF templates.value # PyTrue
                 THEN templates
                 ELSE IF version.raised # "no"
                      THEN version
                      ELSE [version EXCEPT !.value = PyAnd(@, super_valid)]

\* RumbaSessionPublishPlugin.validate
session_plugin_validate(st, setting, super_valid) ==
    LET session == session_validate(st, "session")
        templates == session_templates_validate(session, setting)
        version == version_validate(templates)
    IN IF session.raised # "no"
       THEN session
       ELSE IF templates.raised # "no"
            THEN templates
            ELSE IF version.raised # "no"
                 THEN version
                 ELSE [version EXCEPT !.value = super_valid]

validate(st, plugin, setting, super_valid) ==
    IF plugin = "base"
    THEN base_validate(st, setting, super_valid)
    ELSE session_plugin_validate(st, setting, super_valid)

\* the dictionary accept returns
Accepted == <<"accepted", "checked">>

\* accept(settings, item), of both plugin classes
accept(st, plugin, setting) ==
    LET got == get_publish_template(st, setting)
        marked == IF Truthy(got.value)
                  THEN [got EXCEPT !.item.context_change_allowed = FALSE]
                  ELSE got
        session == session_validate(marked, plugin)
    IN IF got.raised # "no"
       THEN got
       ELSE IF session.raised # "no"
            THEN session
            ELSE [session EXCEPT
                     !.log = @ \o <<LogRecord("info", "plugin accepted",
                                              NoAction)>>,
                     !.value = Accepted]

\* a plugin method has run with outcome out
PublishDone(a, out) ==
    /\ prev_op' = args.op
    /\ args' = a
    /\ calls' = << >>
    /\ log' = out.log
    /\ ret' = [op |-> a.op, raised |-> out.raised, value |-> out.value]
    /\ item' = out.item
    /\ UNCHANGED <<hostVars, breakdown_items, app, procVars, frame>>

GetPublishTemplate ==
    \E plugin \in Plugins, setting \in PublishTemplateSettings :
        PublishDone([op |-> "get_publish_template", plugin |-> plugin,
                     setting |-> setting],
                    get_publish_template(PublishStart, setting))

SessionValidate ==
    \E plugin \in Plugins :
        PublishDone([op |-> "session_validate", plugin |-> plugin],
                    session_validate(PublishStart, plugin))

Accept ==
    \E plugin \in Plugins, setting \in PublishTemplateSettings :
        PublishDone([op |-> "accept", plugin |-> plugin, setting |-> setting],
                    accept(PublishStart, plugin, setting))

Validate ==
    \E plugin \in Plugins, setting \in PublishTemplateSettings,
       super_valid \in {PyTrue, PyFalse} :
        PublishDone([op |-> "validate", plugin |-> plugin,
                     setting |-> setting, super_valid |-> super_valid],
                    validate(PublishStart, plugin, setting, super_valid))

\* the names the session can be saved under
SessionFiles ==
    {WorkV(n) : n \in 1 .. MaxVersion} \cup {WorkVDouble(1), OutsidePath}

\* the user saves the session, by the Save As... button or by the host's
\* menu: _save_as, main_window.save_as()
HostSaveAs ==
    /\ active_document
    /\ \E path \in SessionFiles :
           /\ document_filename' = path
           /\ disk' = disk \cup {Squeeze(path, "/")}
    /\ prev_op' = args.op
    /\ args' = [op |-> "host"]
    /\ calls' = <<"save_as">>
    /\ log' = << >>
    /\ ret' = [op |-> "host", raised |-> "no", value |-> None]
    /\ UNCHANGED <<os_sep, active_document, nodes, frameVars,
                   breakdown_items, item, app, procVars, frame>>

\* the publisher has collected an item for a session that is unsaved, or
\* saved under one of the names; earlier versions may be on disk
InitPublish ==
    /\ app = "tk-multi-publish2"
    /\ os_sep \in {"/", "\\"}
    /\ platform = IF os_sep = "/" THEN "linux" ELSE "win32"
    /\ environ = NoEnviron
    /\ active_document = TRUE
    /\ nodes = << >>
    /\ start_frame = 0
    /\ end_frame = 0
    /\ range_start_frame = 0
    /\ range_end_frame = 0
    /\ document_filename \in {Empty, Untitled} \cup SessionFiles
    /\ disk \in {IF document_filename \in SessionFiles
                 THEN d \cup {Squeeze(document_filename, "/")}
                 ELSE d : d \in SUBSET {WorkV(n) : n \in 2 .. MaxVersion}}
    /\ breakdown_items = << >>
    /\ item \in {[NoItem EXCEPT !.work_template = w] :
                     w \in {Absent, WorkTemplate}}
    /\ frame = NoFrame
    /\ prev_op = "none"
    /\ args = NoArgs
    /\ calls = << >>
    /\ log = << >>
    /\ ret = NoRet

\* the publisher calls the plugin methods from its event loop, one call at
\* a time
NextPublish ==
    \/ Idle /\ GetPublishTemplate
    \/ Idle /\ SessionValidate
    \/ Idle /\ Accept
    \/ Idle /\ Validate
    \/ Idle /\ HostSaveAs
    \/ Return

SpecPublish == InitPublish /\ [][NextPublish]_vars

(***************************************************************************)
(* Properties of the publish plugins.                                      *)
(***************************************************************************)
\* the session is unsaved: the document file name is empty or "untitled"
Unsaved == document_filename = Empty \/ document_filename = Untitled

\* the one record logged is an error with the Save As... button
SaveAsErrorLogged ==
    /\ Len(log) = 1
    /\ log[1].level = "error"
    /\ log[1].action.label = "Save As..."

\* path is written with the separator of the platform only, with no
\* doubled and no trailing separator
IsNormalized(path) ==
    /\ \A i \in 1 .. Len(path) : path[i] \in {"/", "\\"} => path[i] = os_sep
    /\ \A i \in 1 .. Len(path) - 1 : ~(path[i] = os_sep /\ path[i + 1] = os_sep)
    /\ Len(path) > 1 => path[Len(path)] # os_sep

\* p and q name the same file
SamePath(p, q) == Squeeze(Slashed(p), "/") = Squeeze(Slashed(q), "/")

\* the setting names a template the engine does not know, and the item
\* carries no template
TemplateUnresolved(it, setting) ==
    /\ ~Truthy(get_property(it, "publish_template"))
    /\ setting.present
    /\ setting.value = BadTemplateName

SessionChecks == {"session_validate", "accept", "validate"}

\* C9 (as stated): for each plugin, with an unsaved session session_validate,
\* accept and validate raise after logging an error with the Save As...
\* button and leave item.properties["path"] as it was; with a saved session
\* they set item.properties["path"] to the normalized session path.
C9_UnsavedRaisesSavedSetsPath ==
    [][args'.op \in SessionChecks =>
        IF Unsaved
        THEN /\ ret'.raised # "no"
             /\ SaveAsErrorLogged'
             /\ item'.path = item.path
        ELSE /\ IsNormalized(item'.path)
             /\ SamePath(item'.path, document_filename)]_vars

\* C9 (amended): the same holds for session_validate and validate, and for
\* accept unless get_publish_template, which accept calls first, raises
\* TankError: then accept raises TankError, logs no Save As... error and
\* leaves item.properties["path"] as it was, saved session or not.
C9_UnsavedRaisesUnlessTemplateFailsFirst ==
    [][args'.op \in SessionChecks =>
        IF args'.op = "accept" /\ TemplateUnresolved(item, args'.setting)
        THEN /\ ret'.raised = "TankError"
             /\ log' = << >>
             /\ item' = item
        ELSE IF Unsaved
             THEN /\ ret'.raised = "Exception"
                  /\ SaveAsErrorLogged'
                  /\ item'.path = item.path
             ELSE /\ IsNormalized(item'.path)
                  /\ SamePath(item'.path, document_filename)]_vars

\* accept of the session plugin on an untitled session
C9_Witness ==
    /\ ret.op = "accept"
    /\ args.plugin = "session"
    /\ document_filename = Untitled
    /\ ret.raised = "Exception"
    /\ SaveAsErrorLogged
    /\ item.path = Absent

\* C10 (as stated): get_publish_template raises TankError when the setting
\* names a template the engine cannot resolve, and then does not write
\* item.properties["publish_template"]; when the setting is absent or empty
\* it returns None without raising.
C10_UnresolvedRaisesAbsentReturnsNone ==
    [][args'.op = "get_publish_template" =>
        /\ (args'.setting.present /\ args'.setting.value = BadTemplateName) =>
               /\ ret'.raised = "TankError"
               /\ item'.publish_template = item.publish_template
        /\ (~args'.setting.present \/ ~Truthy(args'.setting.value)) =>
               /\ ret'.raised = "no"
               /\ ret'.value = None]_vars

\* C10 (amended): that holds when the item carries no publish_template
\* property with a template; when it carries one, get_publish_template
\* returns it without raising and without writing, whatever the setting.
C10_UnresolvedRaisesUnlessCached ==
    [][args'.op = "get_publish_template" =>
        IF Truthy(get_property(item, "publish_template"))
        THEN /\ ret'.raised = "no"
             /\ ret'.value = item.publish_template
             /\ item' = item
        ELSE /\ (args'.setting.present
                    /\ args'.setting.value = BadTemplateName) =>
                    /\ ret'.raised = "TankError"
                    /\ item' = item
             /\ (~args'.setting.present \/ ~Truthy(args'.setting.value)) =>
                    /\ ret'.raised = "no"
                    /\ ret'.value = None
                    /\ item'.publish_template = None]_vars

\* the setting names an unknown template and the item has no template
C10_Witness ==
    /\ ret.op = "get_publish_template"
    /\ args.setting.present
    /\ args.setting.value = BadTemplateName
    /\ ret.raised = "TankError"
    /\ item.publish_template = Absent

(***************************************************************************)
(* Launcher (startup.py): RumbaLauncher.                                   *)
(***************************************************************************)
ENGINE_NAME == <<"t", "k", "-", "r", "u", "m", "b", "a">>
APPLICATION_NAME == <<"R", "u", "m", "b", "a">>

\* self.disk_location, the folder of the engine
DiskLocation == IF platform = "win32" THEN <<"C", ":", "\\", "e">> ELSE <<"/", "e">>
Startup == <<"s", "t", "a", "r", "t", "u", "p">>

\* os.pathsep
pathsep == IF platform = "win32" THEN ";" ELSE ":"

\* os.path.join(a, b) for a relative b
join(a, b) ==
    IF a = Empty \/ a[Len(a)] \in PathSeps
    THEN a \o b
    ELSE a \o <<os_sep>> \o b

\* sgtk.context.serialize(self.context) and get_sgtk_module_path()
SerializedContext == <<"serialized context">>
SgtkModulePath == <<"sgtk module path">>

\* os.environ.get(name, default)
environ_get(name, default) ==
    IF environ[name] = Absent THEN default ELSE environ[name]

\* the keys prepare_launch may put in required_env
NoRequiredEnv ==
    [RUMBA_USER_PLUGINS |-> Absent, SGTK_ENGINE |-> Absent,
     SGTK_CONTEXT |-> Absent, SGTK_MODULE_PATH |-> Absent,
     SGTK_FILE_TO_OPEN |-> Absent]

\* RumbaLauncher.prepare_launch: the LaunchInformation it returns.
\* PrepareLaunchWithoutUserPlugins is the variant that sets
\* RUMBA_USER_PLUGINS to the startup folder alone.
PrepareLaunchWithoutUserPlugins(exec_path, launch_args, file_to_open) ==
    LET resources_plugins_path == join(DiskLocation, Startup)
        required_env ==
            [NoRequiredEnv EXCEPT
                !.RUMBA_USER_PLUGINS = resources_plugins_path,
                !.SGTK_ENGINE = ENGINE_NAME,
                !.SGTK_CONTEXT = SerializedContext,
                !.SGTK_MODULE_PATH = SgtkModulePath,
                !.SGTK_FILE_TO_OPEN =
                    IF Truthy(file_to_open) THEN file_to_open ELSE Absent]
    IN [path |-> exec_path, args |-> launch_args, environ |-> required_env]
prepare_launch(exec_path, launch_args, file_to_open) ==
    LET resources_plugins_path == join(DiskLocation, Startup)
        required_env ==
            [NoRequiredEnv EXCEPT
                !.RUMBA_USER_PLUGINS =
                    environ_get("RUMBA_USER_PLUGINS", Empty)
                        \o <<pathsep>> \o resources_plugins_path,
                !.SGTK_ENGINE = ENGINE_NAME,
                !.SGTK_CONTEXT = SerializedContext,
                !.SGTK_MODULE_PATH = SgtkModulePath,
                !.SGTK_FILE_TO_OPEN =
                    IF Truthy(file_to_open) THEN file_to_open ELSE Absent]
    IN [path |-> exec_path, args |-> launch_args, environ |-> required_env]

\* the executables, arguments and files the launcher is called with
ExecPaths == {<<"/", "r">>, <<"/", "o", "/", "r", "u", "m", "b", "a">>}
LaunchArgs == {Empty, <<"-", "v">>}
FilesToOpen == {None, Empty, WorkFileA}

\* a launcher method has returned value
LauncherDone(a, value) ==
    /\ prev_op' = args.op
    /\ args' = a
    /\ calls' = << >>
    /\ log' = << >>
    /\ ret' = [op |-> a.op, raised |-> "no", value |-> value]
    /\ UNCHANGED <<hostVars, breakdown_items, item, app, procVars, frame>>

PrepareLaunch ==
    \E exec_path \in ExecPaths, launch_args \in LaunchArgs,
       file_to_open \in FilesToOpen :
        LauncherDone([op |-> "prepare_launch", exec_path |-> exec_path,
                      args |-> launch_args, file_to_open |-> file_to_open],
                     prepare_launch(exec_path, launch_args, file_to_open))

\* EXECUTABLE_TEMPLATES
RumbaBinTemplate == <<"$", "R", "U", "M", "B", "A", "_", "B", "I", "N">>
DarwinExe ==
    <<"/", "A", "p", "p", "l", "i", "c", "a", "t", "i", "o", "n", "s", "/",
      "r", "u", "m", "b", "a", "/", "R", "u", "m", "b", "a", "/", "R", "u",
      "m", "b", "a", ".", "a", "p", "p">>
Win32Exe ==
    <<"C", ":", "/", "P", "r", "o", "g", "r", "a", "m", " ", "F", "i", "l",
      "e", "s", "/", "R", "u", "m", "b", "a", "/", "r", "u", "m", "b", "a",
      ".", "e", "x", "e">>
LinuxExe == <<"/", "u", "s", "r", "/", "b", "i", "n", "/", "r", "u", "m", "b", "a">>
EXECUTABLE_TEMPLATES ==
    [darwin |-> <<RumbaBinTemplate, DarwinExe>>,
     win32 |-> <<RumbaBinTemplate, Win32Exe>>,
     linux |-> <<RumbaBinTemplate, LinuxExe>>]

\* an executable installed somewhere else
OtherExe == <<"/", "o", "/", "r", "u", "m", "b", "a">>

\* os.path.expanduser(path): only a path that starts with "~" changes
HomeDir == <<"/", "h">>
expanduser(path) ==
    IF path # Empty /\ path[1] = "~" THEN HomeDir \o Tail(path) ELSE path

\* os.path.expandvars(path), for a path that is one variable reference: a
\* variable that is not set is left as it is
expandvars(path) ==
    IF path = RumbaBinTemplate /\ environ.RUMBA_BIN # Absent
    THEN environ.RUMBA_BIN
    ELSE path

\* self._glob_and_match(executable_template, ...): the templates have no
\* placeholder, so the match is the file of that name, when it exists
_glob_and_match(executable_template) ==
    IF exists(executable_template) THEN <<executable_template>> ELSE << >>

\* self._icon_from_engine()
_icon_from_engine == join(DiskLocation, <<"i", "c", "o", "n", "_", "2", "5", "6", ".", "p", "n", "g">>)

\* the SoftwareVersion built for an executable
SoftwareVersion(executable_path) ==
    [version |-> <<" ">>, product |-> APPLICATION_NAME,
     path |-> executable_path, icon |-> _icon_from_engine,
     args |-> IF Truthy(environ_get("SGTK_RUMBA_CMD_EXTRA_ARGS", None))
              THEN <<environ.SGTK_RUMBA_CMD_EXTRA_ARGS>>
              ELSE << >>]

\* RumbaLauncher._find_software: the loop over the templates of the platform
RECURSIVE _find_software(_)
_find_software(executable_templates) ==
    IF executable_templates = << >>
    THEN << >>
    ELSE LET executable_template ==
                 expandvars(expanduser(Head(executable_templates)))
             executable_matches == _glob_and_match(executable_template)
         IN [i \in 1 .. Len(executable_matches) |->
                SoftwareVersion(executable_matches[i])]
                \o _find_software(Tail(executable_templates))

\* RumbaLauncher.scan_software
scan_software == _find_software(EXECUTABLE_TEMPLATES[platform])

ScanSoftware == LauncherDone([op |-> "scan_software"], scan_software)

\* the default install location of the platform
DefaultExe ==
    CASE platform = "darwin" -> DarwinExe
      [] platform = "win32" -> Win32Exe
      [] OTHER -> LinuxExe

\* the launcher runs in the desktop app, on one of the platforms, with or
\* without the variables set and the executables installed
InitLauncher ==
    /\ app = "tk-multi-launchapp"
    /\ platform \in {"darwin", "win32", "linux"}
    /\ os_sep = IF platform = "win32" THEN "\\" ELSE "/"
    /\ environ \in [RUMBA_USER_PLUGINS : {Absent, Empty, <<"/", "p">>},
                    RUMBA_BIN : {Absent, DefaultExe, OtherExe},
                    SGTK_RUMBA_CMD_EXTRA_ARGS : {Absent, <<"-", "x">>}]
    /\ active_document = FALSE
    /\ nodes = << >>
    /\ start_frame = 0
    /\ end_frame = 0
    /\ range_start_frame = 0
    /\ range_end_frame = 0
    /\ document_filename = Empty
    /\ disk \in SUBSET {DefaultExe, OtherExe}
    /\ breakdown_items = << >>
    /\ item = NoItem
    /\ frame = NoFrame
    /\ prev_op = "none"
    /\ args = NoArgs
    /\ calls = << >>
    /\ log = << >>
    /\ ret = NoRet

NextLauncher ==
    \/ Idle /\ PrepareLaunch
    \/ Idle /\ ScanSoftware
    \/ Return

SpecLauncher == InitLauncher /\ [][NextLauncher]_vars

\* C11: prepare_launch returns the given path and args unchanged, with an
\* environment that holds SGTK_ENGINE = "tk-rumba", SGTK_CONTEXT and
\* SGTK_MODULE_PATH, holds SGTK_FILE_TO_OPEN exactly when file_to_open is
\* given and not empty, and whose RUMBA_USER_PLUGINS starts with the value
\* the variable had and ends with the startup folder of the engine.
C11_LaunchDescriptor ==
    ret.op = "prepare_launch" =>
        LET env == ret.value.environ
            before == IF environ.RUMBA_USER_PLUGINS = Absent
                      THEN Empty ELSE environ.RUMBA_USER_PLUGINS
            given == args.file_to_open # None /\ args.file_to_open # Empty
        IN /\ ret.raised = "no"
           /\ ret.value.path = args.exec_path
           /\ ret.value.args = args.args
           /\ env.SGTK_ENGINE = ENGINE_NAME
           /\ env.SGTK_CONTEXT = SerializedContext
           /\ env.SGTK_MODULE_PATH = SgtkModulePath
           /\ (env.SGTK_FILE_TO_OPEN # Absent) = given
           /\ given => env.SGTK_FILE_TO_OPEN = args.file_to_open
           /\ Len(env.RUMBA_USER_PLUGINS) > Len(before) + Len(Startup)
           /\ SubSeq(env.RUMBA_USER_PLUGINS, 1, Len(before)) = before
           /\ EndsWith(env.RUMBA_USER_PLUGINS, <<os_sep>> \o Startup)

\* a launch with a file to open, when RUMBA_USER_PLUGINS was set
C11_Witness ==
    /\ ret.op = "prepare_launch"
    /\ args.file_to_open = WorkFileA
    /\ environ.RUMBA_USER_PLUGINS \notin {Absent, Empty}
    /\ ret.value.environ.SGTK_FILE_TO_OPEN = WorkFileA

\* C12: scan_software returns exactly one descriptor for each executable it
\* discovers: no executable path is in two descriptors, also when
\* $RUMBA_BIN and the default install location name the same executable.
C12_OneDescriptorPerExecutable ==
    ret.op = "scan_software" =>
        /\ \A i, j \in 1 .. Len(ret.value) :
               i # j => ret.value[i].path # ret.value[j].path
        /\ \A exe \in {DefaultExe} \cup
                      (IF environ.RUMBA_BIN = Absent THEN {}
                                                     ELSE {environ.RUMBA_BIN}) :
               exists(exe) =>
                   Cardinality({i \in 1 .. Len(ret.value) :
                                   ret.value[i].path = exe}) = 1

(***************************************************************************)
(* The loops of the publish hooks, one iteration at a time: the search for *)
(* the next available version in validate, and the walk of all_ascendants  *)
(* in the collector.                                                       *)
(***************************************************************************)
\* validate reaches the version check: the first _get_next_version_info
VersionSearchStart ==
    /\ frame.op = "none"
    /\ item.path # Absent
    /\ frame' = [op |-> "version_search",
                 info |-> _get_next_version_info(item.path),
                 entered |-> FALSE]
    /\ prev_op' = args.op
    /\ args' = [op |-> "version_search"]
    /\ calls' = << >>
    /\ log' = << >>
    /\ ret' = NoRet
    /\ UNCHANGED <<hostVars, breakdown_items, item, app, procVars>>

\* one iteration of "while os.path.exists(next_version_path)"
VersionSearchStep ==
    /\ frame.op = "version_search"
    /\ Truthy(frame.info.path)
    /\ exists(frame.info.path)
    /\ frame' = [frame EXCEPT !.info = _get_next_version_info(@.path),
                              !.entered = TRUE]
    /\ UNCHANGED <<hostVars, breakdown_items, item, app, procVars, prev_op,
                   args, calls, log, ret>>

\* the next version is not on disk: the check passes when the loop was
\* never entered, and raises with the Save to v<N> button when it was
VersionSearchEnd ==
    /\ frame.op = "version_search"
    /\ ~(Truthy(frame.info.path) /\ exists(frame.info.path))
    /\ frame' = NoFrame
    /\ log' = IF frame.entered
              THEN <<LogRecord("error", "The next version exists.",
                               SaveToAction(frame.info.version))>>
              ELSE << >>
    /\ ret' = [op |-> "version_search",
               raised |-> IF frame.entered THEN "Exception" ELSE "no",
               value |-> IF frame.entered THEN None ELSE PyTrue]
    /\ UNCHANGED <<hostVars, breakdown_items, item, app, procVars, prev_op,
                   args, calls>>

\* all_ascendants(node) is called on a node of the document
AscendantsStart ==
    /\ frame.op = "none"
    /\ \E n \in DOMAIN nodes :
           /\ frame' = [op |-> "all_ascendants", node |-> n, result |-> << >>]
           /\ args' = [op |-> "all_ascendants", node |-> n]
    /\ prev_op' = args.op
    /\ calls' = << >>
    /\ log' = << >>
    /\ ret' = NoRet
    /\ UNCHANGED <<hostVars, breakdown_items, item, app, procVars>>

\* node.parent() returns the parent: it is appended and the walk goes on
\* from it.  The nodes below the document have the root, 0, as parent.
AscendantsStep ==
    /\ frame.op = "all_ascendants"
    /\ frame.node # 0
    /\ frame' = [frame EXCEPT !.node = nodes[@].parent,
                              !.result = @ \o <<nodes[frame.node].parent>>]
    /\ UNCHANGED <<hostVars, breakdown_items, item, app, procVars, prev_op,
                   args, calls, log, ret>>

\* node.parent() of the root raises RuntimeError, which ends the walk
AscendantsEnd ==
    /\ frame.op = "all_ascendants"
    /\ frame.node = 0
    /\ frame' = NoFrame
    /\ ret' = [op |-> "all_ascendants", raised |-> "no",
               value |-> frame.result]
    /\ UNCHANGED <<hostVars, breakdown_items, item, app, procVars, prev_op,
                   args, calls, log>>

\* a saved session with versions of its file on disk, and a document
InitLoops ==
    /\ app = "tk-multi-publish2"
    /\ os_sep = "/"
    /\ platform = "linux"
    /\ environ = NoEnviron
    /\ active_document = TRUE
    /\ nodes \in Documents
    /\ start_frame = 0
    /\ end_frame = 0
    /\ range_start_frame = 0
    /\ range_end_frame = 0
    /\ \E n \in 1 .. MaxVersion :
           /\ document_filename = WorkV(n)
           /\ item = [NoItem EXCEPT !.path = WorkV(n),
                                    !.work_template = WorkTemplate]
    /\ disk \in {d \cup {document_filename} :
                    d \in SUBSET {WorkV(n) : n \in 2 .. MaxVersion}}
    /\ nodes # << >> => disk = {document_filename}
    /\ breakdown_items = << >>
    /\ frame = NoFrame
    /\ prev_op = "none"
    /\ args = NoArgs
    /\ calls = << >>
    /\ log = << >>
    /\ ret = NoRet

NextLoops ==
    \/ VersionSearchStart
    \/ VersionSearchStep
    \/ VersionSearchEnd
    \/ AscendantsStart
    \/ AscendantsStep
    \/ AscendantsEnd

SpecLoops == InitLoops /\ [][NextLoops]_vars

\* the interpreter runs the loop that was started
SpecLoopsFair ==
    /\ SpecLoops
    /\ WF_vars(VersionSearchStep)
    /\ WF_vars(VersionSearchEnd)
    /\ WF_vars(AscendantsStep)
    /\ WF_vars(AscendantsEnd)

\* C13: the search for the next available version ends for every set of
\* version files on disk, and the walk over the ancestors of a node ends at
\* the root of the document: a loop that is running is left.
C13_LoopsTerminate == (frame.op # "none") ~> (frame.op = "none")

\* the search has ended after it went past two versions on disk
C13_Witness ==
    /\ ret.op = "version_search"
    /\ frame.op = "none"
    /\ ret.raised = "Exception"
    /\ log[1].action.version > VersionOf(item.path) + 2

\* the walk has reached the root from a node two levels below it
AscendantsWalked ==
    /\ ret.op = "all_ascendants"
    /\ frame.op = "none"
    /\ Len(ret.value) = 2
    /\ ret.value[2] = 0

(***************************************************************************)
(* Properties of the scene operations.                                     *)
(***************************************************************************)
\* after the call an empty, untitled document is the active one
SceneIsEmpty ==
    active_document /\ nodes = << >> /\ document_filename = Untitled

InstanceNames(instances) ==
    {instances[i].name : i \in 1 .. Len(instances)}

\* every instance is a dictionary with the four keys
InstancesWellFormed(instances) ==
    \A i \in 1 .. Len(instances) :
        DOMAIN instances[i] = {"name", "params", "caption", "description"}

\* the names generate_actions has a branch for
KnownActions == {"reference", "import", "import_media"}

UpdateReads(it) ==
    /\ {"node", "path"} \subseteq DOMAIN it
    /\ "node" \in DOMAIN it.node

\* every node named by the items is in the document
AllNamedNodesExist(items) ==
    \A i \in 1 .. Len(items) :
        UpdateReads(items[i]) /\ items[i].node.node \in DOMAIN nodes

NamedNodes(items) == {items[i].node.node : i \in 1 .. Len(items)}

\* C17: after update(items), with items those of scan_scene with some
\* paths replaced, the node of each item references the item's new path
\* (where two items name one node, the path of the later one), the nodes no
\* item names are as they were, and the scan_scene that follows reports the
\* new path for every node named.  Items whose node has left the document
\* since the scan are not asked about.
C17_UpdateWritesEveryItem ==
    [][/\ args'.op = "update" =>
              /\ \A n \in NamedNodes(args'.items) \cap DOMAIN nodes' :
                     get_node_file_path(nodes'[n])
                         = LastItemFor(args'.items, n).path
              /\ \A n \in DOMAIN nodes \ NamedNodes(args'.items) :
                     n \in DOMAIN nodes' /\ nodes'[n] = nodes[n]
       /\ (args.op = "update" /\ args'.op = "scan_scene") =>
              \A n \in NamedNodes(args.items) \cap DOMAIN nodes' :
                  \E k \in 1 .. Len(ret'.value) :
                      /\ ret'.value[k].node.node = n
                      /\ ret'.value[k].path = LastItemFor(args.items, n).path
      ]_vars

(***************************************************************************)
(* Publish plugins: the publish path and the export to it                  *)
(* (get_publish_path, _copy_work_to_publish).                              *)
(*                                                                         *)
(* A dictionary of template fields is the sequence of its keys and values, *)
(* <<key1, value1, key2, value2, ...>>; the empty dictionary is << >>.     *)
(***************************************************************************)
FieldKeys(d) == {d[i] : i \in {j \in 1 .. Len(d) : j % 2 = 1}}

FieldValue(d, key) ==
    d[(CHOOSE i \in 1 .. Len(d) : i % 2 = 1 /\ d[i] = key) + 1]

\* dict.update(e): the entries of e replace those of d with the same key
RECURSIVE FieldsWithout(_, _)
FieldsWithout(d, keys) ==
    IF d = << >>
    THEN << >>
    ELSE (IF d[1] \in keys THEN << >> ELSE <<d[1], d[2]>>)
             \o FieldsWithout(Tail(Tail(d)), keys)

dict_update(d, e) == FieldsWithout(d, FieldKeys(e)) \o e

\* the publish template of an asset item, which names the asset
AssetPublishTemplate == <<"asset publish template">>

\* work_template.get_fields(path)
work_template_get_fields(path) ==
    <<"version", DigitChar(VersionOf(path))>>

\* the keys of a publish template
TemplateKeys(template) ==
    IF template = AssetPublishTemplate
    THEN {"name", "version"}
    ELSE {"version"}

\* publish_template.missing_keys(fields)
missing_keys(template, fields) == TemplateKeys(template) \ FieldKeys(fields)

\* publish_template.apply_fields(fields): "/p/<name>.v<version>", the
\* session's publish template naming the file "s"
apply_fields(template, fields) ==
    Replace(<<"/", "p", "/",
              IF template = AssetPublishTemplate
              THEN FieldValue(fields, "name") ELSE "s",
              ".", "v", FieldValue(fields, "version")>>, "/", os_sep)

\* the extra fields the collector gives an asset item
AssetFields == <<"name", "a">>

\* a publish path set on the item
ItemPublishPath == <<"/", "q">>

\* the publish files the templates name for version 1
PublishFiles == {<<"/", "p", "/", "s", ".", "v", "1">>,
                 <<"/", "p", "/", "a", ".", "v", "1">>}

\* what self._export(settings, item, path) of a plugin does: it writes the
\* file; or it returns without a file (publish_usd, publish_animation_fbx
\* and publish_animation_alembic_cache catch the RuntimeError of the
\* exporter and show a message box, publish_rumba_node does nothing when
\* the node is not found); or it raises
ExportOutcomes == {"written", "nothing", "raises"}

ExportFailedMsg == "Failed to export"

\* the outcome of a plugin method that also writes files
ExportStart == [item |-> item, log |-> << >>, raised |-> "no",
                value |-> None, disk |-> disk, exported |-> FALSE]

\* os.path.exists(path) on the files of an outcome
exists_in(files, path) == Replace(path, "\\", "/") \in files

\* RumbaBasePublishPlugin._copy_work_to_publish(settings, item); export is
\* what self._export does in this run.  exported says that the method
\* reached its last statement, the record "Exported to ...".
_copy_work_to_publish(st, setting, export) ==
    LET work_template == get_property(st.item, "work_template")
        got == get_publish_template(st, setting)
        publish_template == got.value
        work_file == st.item.path
        extra == get_property(st.item, "extra_fields")
        work_fields == IF Truthy(extra)
                       THEN dict_update(work_template_get_fields(work_file),
                                        extra)
                       ELSE work_template_get_fields(work_file)
        publish_file == apply_fields(publish_template, work_fields)
        failed(o) == [o EXCEPT !.log = @ \o <<LogRecord("error",
                                                ExportFailedMsg, NoAction)>>,
                               !.raised = "TankError"]
    IN IF ~Truthy(work_template)
       THEN st
       ELSE IF got.raised # "no"
       THEN got
       ELSE IF ~Truthy(publish_template)
       THEN [got EXCEPT !.value = None]
       ELSE IF ~work_template_validate(work_file)
       THEN [got EXCEPT !.log = @ \o <<LogRecord("warning",
                                         "Publishing in place.", NoAction)>>,
                        !.value = None]
       ELSE IF missing_keys(publish_template, work_fields) # {}
       THEN [got EXCEPT !.log = @ \o <<LogRecord("warning",
                                         "missing keys", NoAction)>>,
                        !.value = None]
       ELSE IF export = "raises"
       THEN failed([got EXCEPT !.value = None])
       ELSE LET wrote == [got EXCEPT
                             !.value = None,
                             !.disk = IF export = "written"
                                      THEN @ \cup {Replace(publish_file,
                                                           "\\", "/")}
                                      ELSE @]
            IN IF ~exists_in(wrote.disk, publish_file)
               THEN failed(wrote)
               ELSE [wrote EXCEPT !.exported = TRUE]

CopyWorkToPublish ==
    \E setting \in PublishTemplateSettings, export \in ExportOutcomes :
        \E out \in {_copy_work_to_publish(ExportStart, setting, export)} :
            /\ prev_op' = args.op
            /\ args' = [op |-> "_copy_work_to_publish", setting |-> setting,
                        export |-> export]
            /\ calls' = << >>
            /\ log' = out.log
            /\ ret' = [op |-> "_copy_work_to_publish", raised |-> out.raised,
                       value |-> out.value, exported |-> out.exported]
            /\ item' = out.item
            /\ disk' = out.disk
            /\ UNCHANGED <<os_sep, active_document, nodes, frameVars,
                           document_filename, breakdown_items, app, procVars,
                           frame>>

\* RumbaBasePublishPlugin.get_publish_path(settings, item).  work_fields
\* starts as the list [] and becomes the dictionary of the work template
\* only when the path matches it: on the list, update() raises
\* AttributeError and missing_keys reports every key of the template.
base_get_publish_path(st, setting) ==
    LET publish_path == get_property(st.item, "publish_path")
        path == st.item.path
        work_template == get_property(st.item, "work_template")
        got == get_publish_template(st, setting)
        publish_template == got.value
        matches == work_template_validate(path)
        extra == get_property(st.item, "extra_fields")
        work_fields == IF Truthy(extra)
                       THEN dict_update(work_template_get_fields(path), extra)
                       ELSE work_template_get_fields(path)
        missing == IF matches
                   THEN missing_keys(publish_template, work_fields)
                   ELSE TemplateKeys(publish_template)
    IN IF Truthy(publish_path)
       THEN [st EXCEPT !.value = publish_path]
       ELSE IF got.raised # "no"
       THEN got
       ELSE IF ~(Truthy(work_template) /\ Truthy(publish_template))
       THEN [got EXCEPT !.value = path]
       ELSE IF ~matches /\ Truthy(extra)
       THEN [got EXCEPT !.raised = "AttributeError"]
       ELSE IF missing # {}
       THEN [got EXCEPT !.log = @ \o <<LogRecord("warning",
                                         "Not enough keys", NoAction)>>,
                        !.value = path]
       ELSE [got EXCEPT !.value = apply_fields(publish_template, work_fields)]

GetPublishPath ==
    \E setting \in PublishTemplateSettings :
        \E out \in {base_get_publish_path(ExportStart, setting)} :
            /\ prev_op' = args.op
            /\ args' = [op |-> "get_publish_path", setting |-> setting]
            /\ calls' = << >>
            /\ log' = out.log
            /\ ret' = [op |-> "get_publish_path", raised |-> out.raised,
                       value |-> out.value, exported |-> FALSE]
            /\ item' = out.item
            /\ UNCHANGED <<hostVars, breakdown_items, app, procVars, frame>>

\* the publisher has validated an item of a saved session: its path is the
\* normalized session path; the collector has given it a work template and
\* extra fields, or not; files of earlier publishes may be on disk
InitExport ==
    /\ app = "tk-multi-publish2"
    /\ os_sep \in {"/", "\\"}
    /\ platform = IF os_sep = "/" THEN "linux" ELSE "win32"
    /\ environ = NoEnviron
    /\ active_document = TRUE
    /\ nodes = << >>
    /\ start_frame = 0
    /\ end_frame = 0
    /\ range_start_frame = 0
    /\ range_end_frame = 0
    /\ document_filename \in {WorkV(1), OutsidePath}
    /\ disk \in {d \cup {document_filename} : d \in SUBSET PublishFiles}
    /\ breakdown_items = << >>
    /\ item \in {[NoItem EXCEPT !.path = normalize(document_filename),
                                !.work_template = w,
                                !.publish_template = t,
                                !.extra_fields = e,
                                !.publish_path = p] :
                     w \in {Absent, WorkTemplate},
                     t \in {Absent, PublishTemplate, AssetPublishTemplate},
                     e \in {Absent, AssetFields},
                     p \in {Absent, ItemPublishPath}}
    /\ frame = NoFrame
    /\ prev_op = "none"
    /\ args = NoArgs
    /\ calls = << >>
    /\ log = << >>
    /\ ret = NoRet

NextExport ==
    \/ Idle /\ CopyWorkToPublish
    \/ Idle /\ GetPublishPath
    \/ Return

SpecExport == InitExport /\ [][NextExport]_vars

\* the case of C18: both templates are set, the work file matches the work
\* template and the fields fill every key of the publish template
ExportCase ==
    /\ Truthy(get_property(item, "work_template"))
    /\ Truthy(get_property(item, "publish_template"))
    /\ work_template_validate(item.path)
    /\ TemplateKeys(item.publish_template) \subseteq
           {"version"} \cup FieldKeys(IF Truthy(get_property(item, "extra_fields"))
                                      THEN item.extra_fields ELSE << >>)

\* C18: in that case _copy_work_to_publish returns normally only if the
\* export call of this run produced the file at the publish path; an
\* export that failed or did nothing ends in TankError, also when a file of
\* an earlier publish is at that path.
C18_ReturnsOnlyIfThisRunExported ==
    (ret.op = "_copy_work_to_publish" /\ ExportCase) =>
        /\ ret.raised = "no" => args.export = "written"
        /\ args.export # "written" => ret.raised = "TankError"

(***************************************************************************)
(* What RumbaBasePublishPlugin.validate reports.                           *)
(***************************************************************************)
\* the item of the call has a work template that the path of the session
\* does not match
SessionOutsideWorkTemplate ==
    /\ Truthy(get_property(item, "work_template"))
    /\ Truthy(_session_path)
    /\ ~work_template_validate(normalize(_session_path))

\* the item has no work template
NoWorkTemplate == ~Truthy(get_property(item, "work_template"))

\* no publish template has resolved: the item holds none after the call
NoPublishTemplate == ~Truthy(get_property(item, "publish_template"))

\* C19: RumbaBasePublishPlugin.validate does not report an item as valid
\* when the session path does not match the configured work template, when
\* the item has no work template, or when no publish template resolves: it
\* returns False or raises, and never returns True.
C19_InvalidTemplatesNeverValid ==
    (/\ ret.op = "validate"
     /\ args.plugin = "base"
     /\ SessionOutsideWorkTemplate \/ NoWorkTemplate \/ NoPublishTemplate)
    => \/ ret.raised # "no"
       \/ ret.value = PyFalse

\* validate of the base plugin returned False for a saved session whose
\* item has a publish template and no work template
C19_Witness ==
    /\ ret.op = "validate"
    /\ args.plugin = "base"
    /\ NoWorkTemplate
    /\ ~NoPublishTemplate
    /\ ret.raised = "no"
    /\ ret.value = PyFalse

\* validate of the base plugin raised for a session saved outside the work
\* area
C19_RaisedOutsideWorkTemplate ==
    /\ ret.op = "validate"
    /\ args.plugin = "base"
    /\ SessionOutsideWorkTemplate
    /\ ret.raised = "TypeError"

(***************************************************************************)
(* The publish path.                                                       *)
(***************************************************************************)
\* the fields get_publish_path has for an item whose path matches the work
\* template
ItemFields ==
    IF Truthy(get_property(item, "extra_fields"))
    THEN dict_update(work_template_get_fields(item.path), item.extra_fields)
    ELSE work_template_get_fields(item.path)

\* both templates exist, the path matches the work template and no key of
\* the publish template is missing
TemplatesApply ==
    /\ Truthy(get_property(item, "work_template"))
    /\ Truthy(get_property(item, "publish_template"))
    /\ work_template_validate(item.path)
    /\ missing_keys(item.publish_template, ItemFields) = {}

\* C20: get_publish_path always returns a path and never raises: the
\* publish_path property of the item when set; otherwise the publish
\* template applied to the work fields plus extra_fields when both templates
\* exist and no key is missing; otherwise the session path of the item,
\* also when that path does not match the work template and the item
\* carries extra_fields.
C20_AlwaysReturnsAPath ==
    ret.op = "get_publish_path" =>
        /\ ret.raised = "no"
        /\ ret.value =
               IF Truthy(get_property(item, "publish_path"))
               THEN item.publish_path
               ELSE IF TemplatesApply
                    THEN apply_fields(item.publish_template, ItemFields)
                    ELSE item.path

(***************************************************************************)
(* The version check of validate.                                          *)
(***************************************************************************)
\* the next version of the session file is on disk
NextVersionExists(path) ==
    LET info == _get_next_version_info(path)
    IN Truthy(info.path) /\ exists(info.path)

\* the lowest version above that of path whose file is not on disk
LowestFreeVersion(path) ==
    CHOOSE n \in VersionOf(path) + 1 .. 9 :
        /\ WorkV(n) \notin disk
        /\ \A k \in VersionOf(path) + 1 .. n - 1 : WorkV(k) \in disk

\* the log holds the error of the version check, with its button
VersionErrorLogged(records, version) ==
    \E i \in 1 .. Len(records) :
        /\ records[i].level = "error"
        /\ records[i].action = SaveToAction(version)

\* no record of the log carries a "Save to v<N>" button
NoVersionError(records) ==
    \A i \in 1 .. Len(records) : records[i].action.label # "Save to v"

\* validate gets as far as the version check: the session is saved, the
\* publish template lookup does not raise and, in the base plugin,
\* templates_validate returns True (a work template that the path matches
\* and a publish template)
ReachesVersionCheck(a, before, after) ==
    /\ Truthy(_session_path)
    /\ \/ Truthy(get_property(before, "publish_template"))
       \/ ~(a.setting.present /\ Truthy(a.setting.value))
       \/ Truthy(get_template_by_name(a.setting.value))
    /\ a.plugin = "base" =>
           /\ Truthy(get_property(after, "work_template"))
           /\ work_template_validate(after.path)
           /\ Truthy(get_property(after, "publish_template"))

SessionDocuments ==
    {d \in Documents : \A n \in DOMAIN d : d[n].type = "Asset"}

\* _rumba_find_additional_session_dependencies(): the reference file names
\* of the nodes that have one
_rumba_find_additional_session_dependencies ==
    IF active_document
    THEN LET found == find_nodes_with_reference(nodes)
         IN [i \in 1 .. Len(found) |-> nodes[found[i]].ref]
    ELSE << >>

\* the outcome of a method that saves: the item, the document file name,
\* the files, the calls made and the exception raised
SaveStart == [item |-> item, document_filename |-> document_filename,
              disk |-> disk, calls |-> << >>, log |-> << >>,
              raised |-> "no"]

\* _save_session(path): main_window.save_at(path) when there is a document
_save_session(st, path, host_fails) ==
    IF ~active_document
    THEN st
    ELSE IF host_fails
         THEN [st EXCEPT !.calls = @ \o <<"save_at">>,
                         !.raised = "HostError"]
         ELSE [st EXCEPT !.calls = @ \o <<"save_at">>,
                         !.document_filename = path,
                         !.disk = @ \cup {Slashed(path)}]

\* publish of the publish_file plugin: registers the path and the
\* dependencies the item holds
super_publish(st) ==
    [st EXCEPT !.calls = @ \o <<"super.publish">>,
               !.item.sg_publish_data =
                   [registered |-> TRUE, path |-> st.item.path,
                    dependency_paths |-> st.item.publish_dependencies]]

\* RumbaSessionPublishPlugin.publish.  PublishRegistersFirst is the variant
\* that lets the base class register before it saves.
PublishRegistersFirst(st, host_fails) ==
    LET path == normalize(_session_path)
        registered == super_publish(st)
        saved == _save_session(registered, path, host_fails)
    IN IF saved.raised # "no"
       THEN saved
       ELSE [saved EXCEPT
                !.item.path = path,
                !.item.publish_dependencies =
                    _rumba_find_additional_session_dependencies]
session_publish(st, host_fails) ==
    LET path == normalize(_session_path)
        saved == _save_session(st, path, host_fails)
    IN IF saved.raised # "no"
       THEN saved
       ELSE super_publish(
                [saved EXCEPT
                    !.item.path = path,
                    !.item.publish_dependencies =
                        _rumba_find_additional_session_dependencies])

\* self._save_to_next_version(path, item, save_callback), of the
\* publish_file plugin: saves to the next version unless the path carries
\* no version or the file of the next version is on disk
_save_to_next_version(st, path, host_fails) ==
    LET info == _get_next_version_info(path)
    IN IF ~Truthy(info.path)
       THEN st
       ELSE IF exists(info.path)
            THEN [st EXCEPT !.log = @ \o <<LogRecord("warning",
                                "The next version exists.", NoAction)>>]
            ELSE _save_session(st, info.path, host_fails)

\* RumbaSessionPublishPlugin.finalize
session_finalize(st, host_fails) ==
    _save_to_next_version([st EXCEPT !.calls = @ \o <<"super.finalize">>],
                          st.item.path, host_fails)

SaveDone(a, out) ==
    /\ prev_op' = args.op
    /\ args' = a
    /\ calls' = out.calls
    /\ log' = out.log
    /\ ret' = [op |-> a.op, raised |-> out.raised, value |-> None]
    /\ item' = out.item
    /\ document_filename' = out.document_filename
    /\ disk' = out.disk
    /\ UNCHANGED <<os_sep, active_document, nodes, frameVars,
                   breakdown_items, app, procVars, frame>>

\* the publisher runs publish on an item it has validated: the session is
\* saved
SessionPublish ==
    /\ Truthy(_session_path)
    /\ \E host_fails \in BOOLEAN :
           SaveDone([op |-> "publish", host_fails |-> host_fails],
                    session_publish(SaveStart, host_fails))

\* the publisher runs finalize on the items it has published.  The
\* versions of the model end at MaxVersion + 1.
SessionFinalize ==
    /\ item.sg_publish_data.registered
    /\ IsWorkPath(item.path) => VersionOf(item.path) <= MaxVersion
    /\ \E host_fails \in BOOLEAN :
           SaveDone([op |-> "finalize", host_fails |-> host_fails],
                    session_finalize(SaveStart, host_fails))

\* the publisher has validated the session item of a saved session
InitSession ==
    /\ app = "tk-multi-publish2"
    /\ os_sep \in {"/", "\\"}
    /\ platform = IF os_sep = "/" THEN "linux" ELSE "win32"
    /\ environ = NoEnviron
    /\ active_document = TRUE
    /\ nodes \in SessionDocuments
    /\ start_frame = 0
    /\ end_frame = 0
    /\ range_start_frame = 0
    /\ range_end_frame = 0
    /\ document_filename \in SessionFiles
    /\ disk = {Squeeze(document_filename, "/")}
    /\ breakdown_items = << >>
    /\ item = [NoItem EXCEPT !.path = normalize(document_filename)]
    /\ frame = NoFrame
    /\ prev_op = "none"
    /\ args = NoArgs
    /\ calls = << >>
    /\ log = << >>
    /\ ret = NoRet

\* the publisher calls the plugin from its event loop; the user may save
\* the session under another name in between
NextSession ==
    \/ Idle /\ SessionPublish
    \/ Idle /\ SessionFinalize
    \/ Idle /\ HostSaveAs
    \/ Return

SpecSession == InitSession /\ [][NextSession]_vars

\* C22: publish saves the session to its current normalized path and
\* records that path and the reference dependencies on the item before the
\* base class registers the publish; finalize runs the base finalization
\* first and only then saves the session to the next version, so the path
\* registered as published is never the path of the bumped version.
C22_SaveThenRegisterThenBump ==
    [][/\ (args'.op = "publish" /\ ret'.raised = "no") =>
              /\ calls' = <<"save_at", "super.publish">>
              /\ item'.path = normalize(_session_path)
              /\ document_filename' = item'.path
              /\ Slashed(item'.path) \in disk'
              /\ item'.publish_dependencies =
                     _rumba_find_additional_session_dependencies
              /\ item'.sg_publish_data =
                     [registered |-> TRUE, path |-> item'.path,
                      dependency_paths |-> item'.publish_dependencies]
       /\ (args'.op = "publish" /\ ret'.raised # "no") =>
              /\ "super.publish" \notin {calls'[i] : i \in 1 .. Len(calls')}
              /\ item' = item
       /\ args'.op = "finalize" =>
              /\ calls'[1] = "super.finalize"
              /\ item' = item
              /\ document_filename' # document_filename =>
                     /\ calls' = <<"super.finalize", "save_at">>
                     /\ document_filename'
                            = _get_next_version_info(item.path).path
                     /\ document_filename' # item'.sg_publish_data.path
      ]_vars

\* a session with a reference was published and finalize has bumped it to
\* the next version
C22_Witness ==
    /\ ret.op = "finalize"
    /\ ret.raised = "no"
    /\ calls = <<"super.finalize", "save_at">>
    /\ item.sg_publish_data.dependency_paths = <<RefA>>
    /\ IsWorkPath(document_filename)
    /\ VersionOf(document_filename) = VersionOf(item.sg_publish_data.path) + 1

(***************************************************************************)
(* The collector (tk-multi-publish2, collector.py).  A node of the scene   *)
(* holds what the collector reads:                                         *)
(*   type        node.type_name()                                          *)
(*   show        the show plug: "none" (no such plug), "true" or "false"   *)
(*   asset_name  node.asset_name.as_string(), of an Asset                  *)
(*   parent      the node it is a child of, 0 for the document             *)
(***************************************************************************)
\* the asset names of the scenes: "a" and "a_"
NameA == <<"a">>
NameAUnderscore == <<"a", "_">>
AssetNames == {NameA, NameAUnderscore}

\* an Asset has a show plug and a name, a Geometry node may lack the plug
SceneSchema(r) ==
    IF r.type = "Asset"
    THEN /\ r.show # "none"
         /\ r.asset_name \in AssetNames
         /\ r.show = "false" => r.asset_name = NameA
    ELSE r.asset_name = Empty

\* the first node hangs under the document, the second under the first,
\* every later node under the node before it or under the document
SceneParents(n) == IF n <= 2 THEN {n - 1} ELSE {n - 1, 0}

SceneNodeRecs(n) ==
    {r \in [type : {"Asset", "Geometry"}, show : {"none", "true", "false"},
            asset_name : AssetNames \cup {Empty}, parent : SceneParents(n)] :
        SceneSchema(r)}

\* the scenes of k nodes
RECURSIVE Scenes(_)
Scenes(k) ==
    IF k = 0
    THEN {<< >>}
    ELSE {Append(d, r) : d \in Scenes(k - 1), r \in SceneNodeRecs(k)}

\* all_ascendants(node): the parent, its parent, ..., the document.
\* AscendantsFarthestFirst is the variant that lists them from the document
\* down.
RECURSIVE AscendantsFarthestFirst(_, _)
AscendantsFarthestFirst(ns, n) ==
    IF n = 0
    THEN << >>
    ELSE AscendantsFarthestFirst(ns, ns[n].parent) \o <<ns[n].parent>>
RECURSIVE all_ascendants(_, _)
all_ascendants(ns, n) ==
    IF n = 0
    THEN << >>
    ELSE <<ns[n].parent>> \o all_ascendants(ns, ns[n].parent)

\* node.has_plug("show"); the document has none
has_show(ns, n) == n # 0 /\ ns[n].show # "none"

\* is_node_visible(node)
is_node_visible(ns, n) ==
    LET walked == <<n>> \o all_ascendants(ns, n)
    IN \A i \in 1 .. Len(walked) :
           has_show(ns, walked[i]) => ns[walked[i]].show = "true"

\* find_nodes_with_plug(active_document, "show", type_names=["Geometry"])
find_nodes_with_show(ns, type_names) ==
    SelectSeq(Descendants(ns, 0, 0),
              LAMBDA n : has_show(ns, n) /\ ns[n].type \in type_names)

\* by_asset_node is the sequence of its entries [name, nodes], in the
\* order the keys were inserted
GroupIndex(by_asset_node, pname) ==
    IF \E i \in 1 .. Len(by_asset_node) : by_asset_node[i].name = pname
    THEN CHOOSE i \in 1 .. Len(by_asset_node) : by_asset_node[i].name = pname
    ELSE 0

\* the first Asset among the ascendants, 0 when there is none
RECURSIVE first_asset(_, _)
first_asset(ns, ascendants) ==
    IF ascendants = << >>
    THEN 0
    ELSE IF Head(ascendants) # 0 /\ ns[Head(ascendants)].type = "Asset"
         THEN Head(ascendants)
         ELSE first_asset(ns, Tail(ascendants))

\* the loop of find_geometry_nodes_by_asset over the visible nodes
RECURSIVE group_by_asset(_, _, _)
group_by_asset(ns, todo, by_asset_node) ==
    IF todo = << >>
    THEN by_asset_node
    ELSE LET node == Head(todo)
             p == first_asset(ns, all_ascendants(ns, node))
             pname == ns[p].asset_name
             i == GroupIndex(by_asset_node, pname)
         IN IF p = 0
            THEN group_by_asset(ns, Tail(todo), by_asset_node)
            ELSE IF i = 0
                 THEN group_by_asset(ns, Tail(todo),
                          Append(by_asset_node,
                                 [name |-> pname, nodes |-> <<node>>]))
                 ELSE group_by_asset(ns, Tail(todo),
                          [by_asset_node EXCEPT ![i].nodes = Append(@, node)])

\* find_geometry_nodes_by_asset()
find_geometry_nodes_by_asset(ns) ==
    group_by_asset(ns,
        SelectSeq(find_nodes_with_show(ns, {"Geometry"}),
                  LAMBDA n : is_node_visible(ns, n)),
        << >>)

\* re.compile(r"[\W_]+").sub("", asset_name): the alphanumeric characters
\* are kept
AlnumChars == {"a", "b", "c", "0", "1", "2"}
alphanumeric_sub(asset_name) ==
    SelectSeq(asset_name, LAMBDA c : c \in AlnumChars)

\* a collected item: its type, its parent (0 the root item, 1 the session
\* item), the properties set on it among nodes and extra_fields, and their
\* values
CollectedItem(type, parent, properties, item_nodes, name) ==
    [type |-> type, parent |-> parent, properties |-> properties,
     nodes |-> item_nodes, name |-> name]

\* the formats and the item types of their collect methods
Formats == <<"rumba.animation.usd", "rumba.animation.fbx",
             "rumba.animation.alembic_cache">>

\* collect_rumba_usd_assets, collect_rumba_fbx_assets and
\* collect_rumba_abc_assets: one item per entry of by_asset_node
collect_assets(type, ns) ==
    LET by_asset_node == find_geometry_nodes_by_asset(ns)
    IN [i \in 1 .. Len(by_asset_node) |->
           CollectedItem(type, 1, {"nodes", "extra_fields"},
                         by_asset_node[i].nodes,
                         alphanumeric_sub(by_asset_node[i].name))]

\* collect_rumba_usd_scene, collect_rumba_fbx_scene, collect_rumba_abc_scene
collect_scene(type) == <<CollectedItem(type, 1, {}, << >>, Empty)>>

\* collect_rumba_selection_as_nodes: nothing selected, a node, or a node
\* of a reference
collect_selection(selection) ==
    IF selection = "node"
    THEN <<CollectedItem("rumba.node", 1, {}, << >>, Empty)>>
    ELSE << >>

\* RumbaSessionCollector.process_current_session.  CollectBothModes is the
\* variant that collects the whole scene beside the assets,
\* CollectUnsavedSession the one that does not look at the session path.
CollectBothModes(ns, collect_individual_assets, selection) ==
    IF ~Truthy(_session_path)
    THEN << >>
    ELSE <<CollectedItem("rumba.session", 0, {}, << >>, Empty)>>
         \o collect_assets(Formats[1], ns) \o collect_scene(Formats[1])
         \o collect_assets(Formats[2], ns) \o collect_scene(Formats[2])
         \o collect_assets(Formats[3], ns) \o collect_scene(Formats[3])
         \o collect_selection(selection)
CollectUnsavedSession(ns, collect_individual_assets, selection) ==
    <<CollectedItem("rumba.session", 0, {}, << >>, Empty)>>
    \o collect_scene(Formats[1]) \o collect_scene(Formats[2])
    \o collect_scene(Formats[3]) \o collect_selection(selection)
process_current_session(ns, collect_individual_assets, selection) ==
    LET collect(type) == IF collect_individual_assets
                         THEN collect_assets(type, ns)
                         ELSE collect_scene(type)
    IN IF ~Truthy(_session_path)
       THEN << >>
       ELSE <<CollectedItem("rumba.session", 0, {}, << >>, Empty)>>
            \o collect(Formats[1]) \o collect(Formats[2])
            \o collect(Formats[3]) \o collect_selection(selection)

ProcessCurrentSession ==
    \E collect_individual_assets \in BOOLEAN,
       selection \in {"none", "node", "referenced"} :
        /\ prev_op' = args.op
        /\ args' = [op |-> "process_current_session",
                    collect_individual_assets |-> collect_individual_assets,
                    selection |-> selection]
        /\ calls' = << >>
        /\ log' = IF Truthy(_session_path) /\ selection = "referenced"
                  THEN <<LogRecord("warning",
                             "Exporting of reference nodes is not supported",
                             NoAction)>>
                  ELSE << >>
        /\ ret' = [op |-> "process_current_session", raised |-> "no",
                   value |-> process_current_session(nodes,
                                 collect_individual_assets, selection)]
        /\ UNCHANGED <<hostVars, breakdown_items, item, app, procVars, frame>>

\* find_geometry_nodes_by_asset() is called on the active document
FindGeometryNodesByAsset ==
    /\ active_document
    /\ prev_op' = args.op
    /\ args' = [op |-> "find_geometry_nodes_by_asset"]
    /\ calls' = << >>
    /\ log' = << >>
    /\ ret' = [op |-> "find_geometry_nodes_by_asset", raised |-> "no",
               value |-> find_geometry_nodes_by_asset(nodes)]
    /\ UNCHANGED <<hostVars, breakdown_items, item, app, procVars, frame>>

\* the publisher is opened on a session: a saved scene of at most
\* MaxSceneNodes nodes, a scene that was never saved, or no document
InitCollector ==
    /\ app = "tk-multi-publish2"
    /\ os_sep = "/"
    /\ platform = "linux"
    /\ environ = NoEnviron
    /\ active_document \in BOOLEAN
    /\ document_filename \in (IF active_document
                              THEN {Untitled, WorkV(1)}
                              ELSE {Empty, Untitled})
    /\ \E k \in 0 .. (IF ~active_document THEN 0
                       ELSE IF document_filename = Untitled THEN 2
                       ELSE MaxSceneNodes) : nodes \in Scenes(k)
    /\ start_frame = 0
    /\ end_frame = 0
    /\ range_start_frame = 0
    /\ range_end_frame = 0
    /\ disk = {}
    /\ breakdown_items = << >>
    /\ item = NoItem
    /\ frame = NoFrame
    /\ prev_op = "none"
    /\ args = NoArgs
    /\ calls = << >>
    /\ log = << >>
    /\ ret = NoRet

NextCollector ==
    \/ Idle /\ ProcessCurrentSession
    \/ Idle /\ FindGeometryNodesByAsset
    \/ Return

SpecCollector == InitCollector /\ [][NextCollector]_vars

\* C23: process_current_session creates no publish item and returns an
\* empty list when the session is unsaved (the document file name is empty
\* or "untitled"); when it is saved, the session item is created first and
\* every other collected item is a child of that session item.
C23_SessionItemFirstOthersItsChildren ==
    ret.op = "process_current_session" =>
        IF document_filename \in {Empty, Untitled}
        THEN ret.value = << >>
        ELSE /\ Len(ret.value) >= 1
             /\ ret.value[1].type = "rumba.session"
             /\ ret.value[1].parent = 0
             /\ \A i \in 2 .. Len(ret.value) :
                    /\ ret.value[i].type # "rumba.session"
                    /\ ret.value[i].parent = 1

\* a saved session was collected: the session item and items under it
C23_Witness ==
    /\ ret.op = "process_current_session"
    /\ document_filename = WorkV(1)
    /\ Len(ret.value) > 4
    /\ ret.value[1].type = "rumba.session"

\* an unsaved session was collected: nothing came back
C23_UnsavedCollected ==
    /\ ret.op = "process_current_session"
    /\ document_filename = Untitled
    /\ active_document
    /\ nodes # << >>
    /\ ret.value = << >>

\* the items of one format, those of its per-asset collection (with a node
\* list) and those of its whole-scene collection (without)
FormatTypes == {Formats[f] : f \in 1 .. Len(Formats)}
FormatItems(items, type) == SelectSeq(items, LAMBDA it : it.type = type)
IsAssetItem(it) == it.type \in FormatTypes /\ "nodes" \in it.properties
IsSceneItem(it) == it.type \in FormatTypes /\ "nodes" \notin it.properties

\* C24: for a saved session the setting "Collect Individual Assets" selects
\* exactly one collection mode: when true, one USD, one FBX and one Alembic
\* item is collected per asset group, each carrying the node list and the
\* name of its group, and no whole-scene item; when false, exactly one
\* whole-scene item per format and none with a node list; per-asset and
\* whole-scene items never appear in the same result.
C24_SettingSelectsOneCollectionMode ==
    (ret.op = "process_current_session" /\ Truthy(_session_path)) =>
        LET items == ret.value
            by_asset_node == find_geometry_nodes_by_asset(nodes)
        IN /\ ~(/\ \E i \in 1 .. Len(items) : IsAssetItem(items[i])
                /\ \E i \in 1 .. Len(items) : IsSceneItem(items[i]))
           /\ IF args.collect_individual_assets
              THEN /\ \A i \in 1 .. Len(items) : ~IsSceneItem(items[i])
                   /\ \A f \in 1 .. Len(Formats) :
                          LET of_format == FormatItems(items, Formats[f])
                          IN /\ Len(of_format) = Len(by_asset_node)
                             /\ \A g \in 1 .. Len(by_asset_node) :
                                    /\ of_format[g].nodes
                                           = by_asset_node[g].nodes
                                    /\ "extra_fields"
                                           \in of_format[g].properties
                                    /\ of_format[g].name
                                           = alphanumeric_sub(
                                                 by_asset_node[g].name)
              ELSE /\ \A i \in 1 .. Len(items) : ~IsAssetItem(items[i])
                   /\ \A f \in 1 .. Len(Formats) :
                          Len(FormatItems(items, Formats[f])) = 1

\* the assets of a saved scene with two asset groups were collected
C24_Witness ==
    /\ ret.op = "process_current_session"
    /\ Truthy(_session_path)
    /\ args.collect_individual_assets
    /\ Len(find_geometry_nodes_by_asset(nodes)) = 2
    /\ Len(ret.value) = 7

\* the whole scene of a saved session with an asset group was collected
C24_SceneCollected ==
    /\ ret.op = "process_current_session"
    /\ Truthy(_session_path)
    /\ ~args.collect_individual_assets
    /\ Len(find_geometry_nodes_by_asset(nodes)) = 1
    /\ Len(ret.value) = 4

\* the nodes between a node and the document, and the Asset nodes among
\* them
Ancestors(ns, n) ==
    {all_ascendants(ns, n)[i] : i \in 1 .. Len(all_ascendants(ns, n))} \ {0}
AssetAncestors(ns, n) == {p \in Ancestors(ns, n) : ns[p].type = "Asset"}
\* the Asset ancestor with no other Asset between it and the node
NearestAsset(ns, n) ==
    CHOOSE p \in AssetAncestors(ns, n) :
        \A q \in AssetAncestors(ns, n) \ {p} : q \in Ancestors(ns, p)
\* the node and each of its ancestors with a show plug have show = true
ShownWithAncestors(ns, n) ==
    \A p \in {n} \cup Ancestors(ns, n) : ns[p].show \in {"none", "true"}
\* the nodes find_geometry_nodes_by_asset is to group: the visible Geometry
\* nodes with a show plug and an Asset ancestor
Groupable(ns) ==
    {n \in DOMAIN ns : /\ ns[n].type = "Geometry"
                       /\ ns[n].show = "true"
                       /\ ShownWithAncestors(ns, n)
                       /\ AssetAncestors(ns, n) # {}}
GroupNodes(group) == {group.nodes[i] : i \in 1 .. Len(group.nodes)}

\* C25: find_geometry_nodes_by_asset groups only Geometry nodes that are
\* visible (the node and every ancestor that has a show plug have
\* show = true); each such node is placed in the group of its nearest Asset
\* ancestor only, so no node belongs to two groups, and a Geometry node with
\* no Asset ancestor belongs to no group.
C25_VisibleGeometryUnderNearestAsset ==
    ret.op = "find_geometry_nodes_by_asset" =>
        LET by_asset_node == ret.value
            groups == 1 .. Len(by_asset_node)
        IN /\ \A g \in groups :
                  /\ GroupNodes(by_asset_node[g]) \subseteq Groupable(nodes)
                  /\ Cardinality(GroupNodes(by_asset_node[g]))
                         = Len(by_asset_node[g].nodes)
                  /\ \A n \in GroupNodes(by_asset_node[g]) :
                         by_asset_node[g].name
                             = nodes[NearestAsset(nodes, n)].asset_name
           /\ \A n \in Groupable(nodes) :
                  \E g \in groups : n \in GroupNodes(by_asset_node[g])
           /\ \A g, h \in groups :
                  g # h => /\ by_asset_node[g].name # by_asset_node[h].name
                           /\ GroupNodes(by_asset_node[g])
                                  \cap GroupNodes(by_asset_node[h]) = {}

\* a Geometry node under two nested Assets was grouped, beside a Geometry
\* node that has no Asset ancestor
C25_Witness ==
    /\ ret.op = "find_geometry_nodes_by_asset"
    /\ Len(ret.value) = 1
    /\ \E n \in Groupable(nodes) : Cardinality(AssetAncestors(nodes, n)) = 2
    /\ \E n \in DOMAIN nodes :
           /\ nodes[n].type = "Geometry"
           /\ nodes[n].show = "true"
           /\ AssetAncestors(nodes, n) = {}

\* a Geometry node under a hidden Asset was left out
C25_HiddenLeftOut ==
    /\ ret.op = "find_geometry_nodes_by_asset"
    /\ ret.value = << >>
    /\ \E n \in DOMAIN nodes :
           /\ nodes[n].type = "Geometry"
           /\ nodes[n].show = "true"
           /\ \E p \in AssetAncestors(nodes, n) : nodes[p].show = "false"

\* publish_template.apply_fields(work_fields) for an asset item of the
\* session: "/p/<name>.v<version>", the name spelt out
asset_publish_path(it) ==
    Replace(<<"/", "p", "/">> \o it.name
                \o <<".", "v", DigitChar(VersionOf(_session_path))>>,
            "/", os_sep)

\* the items of the assets of one format, by their place in the result
AssetItemsOf(items, type) ==
    {i \in 1 .. Len(items) : items[i].type = type /\ IsAssetItem(items[i])}

\* C26: within one collection run and one format, distinct assets of the
\* scene produce publish items with distinct, non-empty, purely
\* alphanumeric name fields, so two assets never resolve to the same
\* publish path.
C26_DistinctAssetsDistinctNames ==
    ret.op = "process_current_session" =>
        \A type \in FormatTypes :
            \A i, j \in AssetItemsOf(ret.value, type) :
                /\ ret.value[i].name # Empty
                /\ \A c \in 1 .. Len(ret.value[i].name) :
                       ret.value[i].name[c] \in AlnumChars
                /\ i # j => /\ ret.value[i].name # ret.value[j].name
                            /\ asset_publish_path(ret.value[i])
                                   # asset_publish_path(ret.value[j])

(***************************************************************************)
(* The adapter: a session runs one toolkit app, which calls its hooks.     *)
(***************************************************************************)
Init ==
    InitFrames \/ InitBreakdown \/ InitLoader \/ InitScene \/ InitPublish

Next ==
    \/ app = "tk-multi-setframerange" /\ NextFrames
    \/ app = "tk-multi-breakdown" /\ NextBreakdown
    \/ app = "tk-multi-loader2" /\ NextLoader
    \/ app = "tk-multi-workfiles2" /\ NextScene
    \/ app = "tk-multi-publish2" /\ NextPublish

Spec == Init /\ [][Next]_vars

\* the host calls that change the content of the active document
Mutators ==
    {"replace_reference", "plug.set_value", "start_frame.set_value",
     "end_frame.set_value", "range_start_frame.set_value",
     "range_end_frame.set_value", "reference", "load_node",
     "add_media_layer", "get_media", "add_media_clip"}

\* the host calls that replace the active document
DocumentCalls == {"load_document", "new_document"}

BracketCalls == {"modify_begin", "modify_end"}

\* call i has changed the document: a host call that raises is the last
\* call made and has changed nothing
Mutated(i) ==
    /\ calls[i] \in Mutators
    /\ ~(ret.raised = "HostError" /\ i = Len(calls))

\* call i is made after a modify_begin that no modify_end has closed yet
OpenBefore(i) ==
    \E b \in 1 .. i - 1 :
        /\ calls[b] = "modify_begin"
        /\ \A k \in b + 1 .. i - 1 : calls[k] \notin BracketCalls

\* after call i the bracket it is in is closed by a modify_end
ClosedAfter(i) ==
    \E e \in i + 1 .. Len(calls) :
        /\ calls[e] = "modify_end"
        /\ \A k \in i + 1 .. e - 1 : calls[k] \notin BracketCalls

C27_NoBracketLeftOpen ==
    /\ \A b \in 1 .. Len(calls) :
           calls[b] = "modify_begin" =>
               \E e \in b + 1 .. Len(calls) :
                   /\ calls[e] = "modify_end"
                   /\ \A k \in b + 1 .. e - 1 : calls[k] \notin BracketCalls
    /\ \A e \in 1 .. Len(calls) :
           calls[e] = "modify_end" =>
               \E b \in 1 .. e - 1 :
                   /\ calls[b] = "modify_begin"
                   /\ \A k \in b + 1 .. e - 1 : calls[k] \notin BracketCalls

=============================================================================
